---- MODULE Spec2Model ----
(***************************************************************************)
(* LCOE calculator (lcoe-calculator/scripts): the input validator          *)
(* validate_input and the engine calculate_lcoe.                           *)
(*                                                                         *)
(* Numbers.  Python floats are modelled by exact rationals [n, d] in       *)
(* lowest terms (d > 0).  Capacity and years are whole numbers of MW and   *)
(* years.  Money, energy and rates are held as whole numbers of            *)
(* thousandths (1000 USD is 1000000, 100.125 MWh is 100125, 0.08 is 80),   *)
(* so that the documented bounds and defaults 0.30, 0.20, 0.10, 0.02 and   *)
(* 0.005 are representable, and so are amounts with more decimals than     *)
(* the two the outputs are rounded to.                                     *)
(* A value rounded to k decimals is held as the integer number of          *)
(* 10^-k units (round(x, 2) = 50.0 is held as 5000).                       *)
(***************************************************************************)
EXTENDS Integers, Sequences, FiniteSets, TLC

VARIABLES data, validated, pc, via, inputs, year, acc, annual_breakdown,
          result, prev,
          projects, passed, analyzed, locals, comparison, cpc,
          sargs, spc, rloop, values, run, sensitivity, full

\* the validator and the engine
engineVars == <<data, validated, pc, via, inputs, year, acc, annual_breakdown,
                result, prev>>

\* the comparator
compareVars == <<projects, passed, analyzed, locals, comparison, cpc>>

\* the sensitivity analyzer
sensitivityVars == <<sargs, spc, rloop, values, run, sensitivity, full>>

vars == <<engineVars, compareVars, sensitivityVars>>

(***************************************************************************)
(* Exact rational arithmetic (the float operators of the source).          *)
(***************************************************************************)
Abs(x) == IF x < 0 THEN -x ELSE x

RECURSIVE GCD(_, _)
GCD(a, b) == IF b = 0 THEN Abs(a) ELSE GCD(b, a % b)

\* n/d in lowest terms, d > 0
Rat(n, d) ==
    LET g == GCD(Abs(n), Abs(d))
        s == IF d < 0 THEN -1 ELSE 1
    IN  [n |-> s * (n \div g), d |-> s * (d \div g)]

RInt(k) == [n |-> k, d |-> 1]

RAdd(x, y) ==
    LET g == GCD(x.d, y.d)
    IN  Rat(x.n * (y.d \div g) + y.n * (x.d \div g), (x.d \div g) * y.d)

RNeg(x) == [n |-> -x.n, d |-> x.d]

RSub(x, y) == RAdd(x, RNeg(y))

RMul(x, y) ==
    LET g1 == GCD(Abs(x.n), y.d)
        g2 == GCD(Abs(y.n), x.d)
    IN  Rat((x.n \div g1) * (y.n \div g2), (x.d \div g2) * (y.d \div g1))

\* x / y, y # 0
RDiv(x, y) == RMul(x, Rat(y.d, y.n))

\* x ** k for k >= 0: a power of a fraction in lowest terms is in lowest
\* terms
RPow(x, k) == IF k = 0 THEN RInt(1) ELSE [n |-> x.n ^ k, d |-> x.d ^ k]

\* a/b < c/d for b, d > 0, by comparing the continued fractions (no products)
RECURSIVE FracLess(_, _, _, _)
FracLess(a, b, c, d) ==
    IF a \div b # c \div d THEN a \div b < c \div d
    ELSE IF c % d = 0 THEN FALSE
    ELSE IF a % b = 0 THEN TRUE
    ELSE FracLess(d, c % d, b, a % b)

RLess(x, y) == FracLess(x.n, x.d, y.n, y.d)

RLeq(x, y) == ~RLess(y, x)

RIsZero(x) == x.n = 0

RAbs(x) == [n |-> Abs(x.n), d |-> x.d]

\* floor of a rational (\div rounds towards minus infinity)
RFloor(x) == x.n \div x.d

\* the thousandths-held rate r as a rational
PerMille(r) == Rat(r, 1000)

\* the thousandths-held amount of money or energy v as a rational
Amount(v) == Rat(v, 1000)

\* k whole USD or MWh, in thousandths
Whole(k) == 1000 * k

\* A number with a decimal exponent: q * 10^e.  The unit conversions of the
\* engine (/ 1000, * 100) shift e and leave q alone.
Dec(q, e) == [q |-> q, e |-> e]

DecDiv10(x, k) == [q |-> x.q, e |-> x.e - k]

DecMul10(x, k) == [q |-> x.q, e |-> x.e + k]

RECURSIVE Pow10(_)
Pow10(k) == IF k = 0 THEN 1 ELSE 10 * Pow10(k - 1)

\* ties-to-even rounding of f + r/d (0 <= r < d) to an integer
HalfEven(f, r, d) ==
    IF 2 * r < d THEN f
    ELSE IF 2 * r > d THEN f + 1
    ELSE IF f % 2 = 0 THEN f ELSE f + 1

\* the integer part and remainder of (n/d) * 10^k, by long division
RECURSIVE ShiftDigits(_, _, _, _)
ShiftDigits(f, r, d, k) ==
    IF k = 0 THEN <<f, r>>
    ELSE ShiftDigits(10 * f + ((10 * r) \div d), (10 * r) % d, d, k - 1)

\* Python round(x, places) of the float x = q * 10^e, as the integer number
\* of 10^-places units (ties to even)
PyRound(x, places) ==
    LET k == x.e + places
        q == IF k >= 0 THEN x.q ELSE Rat(x.q.n, x.q.d * Pow10(-k))
        s == ShiftDigits(q.n \div q.d, q.n % q.d, q.d, IF k >= 0 THEN k ELSE 0)
    IN  HalfEven(s[1], s[2], q.d)

\* round(x, places) of a plain rational
RRound(x, places) == PyRound(Dec(x, 0), places)

(***************************************************************************)
(* Raw JSON values of an input mapping: <<tag, payload>>.                  *)
(*   "absent"  the key is not in the mapping                               *)
(*   "none"    JSON null                                                   *)
(*   "str"     a non-numeric value (a string)                              *)
(*   "int"     a Python int,   payload in the field's unit                 *)
(*   "float"   a Python float, payload in the field's unit                 *)
(***************************************************************************)
Absent == <<"absent", 0>>

NoneVal == <<"none", 0>>

StrVal == <<"str", 0>>

IntVal(v) == <<"int", v>>

FloatVal(v) == <<"float", v>>

\* field in data
Has(d, f) == d[f][1] # "absent"

\* isinstance(x, (int, float))
IsNumber(x) == x[1] \in {"int", "float"}

\* isinstance(x, int)
IsInt(x) == x[1] = "int"

\* data.get(f, default)
Get(d, f, default) == IF Has(d, f) THEN d[f] ELSE default

\* data.get(f): None when the key is absent
GetOrNone(d, f) == IF Has(d, f) THEN d[f] ELSE NoneVal

\* technology is a string field: <<"absent", "">> or <<"text", name>>
TechAbsent == <<"absent", "">>

Tech(s) == <<"text", s>>

(***************************************************************************)
(* validate_input                                                          *)
(***************************************************************************)
required_fields ==
    <<"capex_usd", "annual_generation_mwh", "project_lifetime_years",
      "discount_rate">>

ValidationError(code, field, received) ==
    [code |-> code, field |-> field, received |-> received]

\* "code" in validated
IsError(v) == "code" \in DOMAIN v

\* the range limits and defaults of the validator
MaxLifetimeYears == 50

MaxDiscountRate == 300

MaxEscalationRate == 200

MaxDegradationRate == 100

DefaultEscalationRate == 20

DefaultDegradationRate == 5

\* FirstMissing going through required_fields from the last to the first
RECURSIVE FirstMissing_backwards(_, _)
FirstMissing_backwards(d, i) ==
    LET j == Len(required_fields) + 1 - i
    IN  IF i > Len(required_fields) THEN 0
        ELSE IF ~Has(d, required_fields[j]) THEN j
        ELSE FirstMissing_backwards(d, i + 1)

\* for field, desc in required_fields: if field not in data: return ...
RECURSIVE FirstMissing(_, _)
FirstMissing(d, i) ==
    IF i > Len(required_fields) THEN 0
    ELSE IF ~Has(d, required_fields[i]) THEN i
    ELSE FirstMissing(d, i + 1)

\* BuildValidated with opex_esc copied into fuel_escalation_rate
BuildValidated_copiedEscalation(d, capex, gen, lifetime, rate, opex, fuel, opex_esc, fuel_esc, deg) ==
    [capex_usd |-> capex[2],
     annual_generation_mwh |-> gen[2],
     project_lifetime_years |-> lifetime[2],
     discount_rate |-> rate[2],
     annual_opex_usd |-> opex[2],
     annual_fuel_cost_usd |-> fuel[2],
     opex_escalation_rate |-> opex_esc[2],
     fuel_escalation_rate |-> opex_esc[2],
     degradation_rate |-> deg[2],
     capacity_mw |-> GetOrNone(d, "capacity_mw"),
     technology |-> IF d.technology[1] = "absent" THEN "generic"
                    ELSE d.technology[2]]

\* validated: LCOEInput = {...}
BuildValidated(d, capex, gen, lifetime, rate, opex, fuel, opex_esc, fuel_esc, deg) ==
    [capex_usd |-> capex[2],
     annual_generation_mwh |-> gen[2],
     project_lifetime_years |-> lifetime[2],
     discount_rate |-> rate[2],
     annual_opex_usd |-> opex[2],
     annual_fuel_cost_usd |-> fuel[2],
     opex_escalation_rate |-> opex_esc[2],
     fuel_escalation_rate |-> fuel_esc[2],
     degradation_rate |-> deg[2],
     capacity_mw |-> GetOrNone(d, "capacity_mw"),
     technology |-> IF d.technology[1] = "absent" THEN "generic"
                    ELSE d.technology[2]]

validate_input(d) ==
    LET m == FirstMissing(d, 1)
        capex == d.capex_usd
        gen == d.annual_generation_mwh
        lifetime == d.project_lifetime_years
        rate == d.discount_rate
        opex == Get(d, "annual_opex_usd", IntVal(0))
        fuel == Get(d, "annual_fuel_cost_usd", IntVal(0))
        opex_esc == Get(d, "opex_escalation_rate", FloatVal(DefaultEscalationRate))
        fuel_esc == Get(d, "fuel_escalation_rate", FloatVal(DefaultEscalationRate))
        deg == Get(d, "degradation_rate", FloatVal(DefaultDegradationRate))
    IN  IF m # 0 THEN
            ValidationError("MISSING_REQUIRED_FIELD", required_fields[m], NoneVal)
        ELSE IF ~IsNumber(capex) \/ capex[2] <= 0 THEN
            ValidationError("INVALID_CAPEX", "capex_usd", capex)
        ELSE IF ~IsNumber(gen) \/ gen[2] <= 0 THEN
            ValidationError("INVALID_GENERATION", "annual_generation_mwh", gen)
        ELSE IF ~IsInt(lifetime) \/ lifetime[2] < 1 \/ lifetime[2] > MaxLifetimeYears THEN
            ValidationError("INVALID_LIFETIME", "project_lifetime_years", lifetime)
        ELSE IF ~IsNumber(rate) \/ rate[2] < 0 \/ rate[2] > MaxDiscountRate THEN
            ValidationError("INVALID_DISCOUNT_RATE", "discount_rate", rate)
        ELSE IF ~IsNumber(opex) \/ opex[2] < 0 THEN
            ValidationError("INVALID_OPEX", "annual_opex_usd", opex)
        ELSE IF ~IsNumber(fuel) \/ fuel[2] < 0 THEN
            ValidationError("INVALID_FUEL_COST", "annual_fuel_cost_usd", fuel)
        ELSE IF ~IsNumber(opex_esc) \/ opex_esc[2] < 0 \/ opex_esc[2] > MaxEscalationRate THEN
            ValidationError("INVALID_OPEX_ESCALATION", "opex_escalation_rate", opex_esc)
        ELSE IF ~IsNumber(fuel_esc) \/ fuel_esc[2] < 0 \/ fuel_esc[2] > MaxEscalationRate THEN
            ValidationError("INVALID_FUEL_ESCALATION", "fuel_escalation_rate", fuel_esc)
        ELSE IF ~IsNumber(deg) \/ deg[2] < 0 \/ deg[2] > MaxDegradationRate THEN
            ValidationError("INVALID_DEGRADATION", "degradation_rate", deg)
        ELSE BuildValidated(d, capex, gen, lifetime, rate, opex, fuel,
                            opex_esc, fuel_esc, deg)

(***************************************************************************)
(* calculate_lcoe                                                          *)
(***************************************************************************)
hours_per_year == 8760

\* InitAccumulators with the NPV of costs started at 0 (capex left out)
InitAccumulators_noCapex(inp) ==
    [total_lifecycle_cost |-> Amount(inp.capex_usd),
     total_generation |-> RInt(0),
     npv_costs |-> RInt(0),
     npv_generation |-> RInt(0),
     cumulative_discounted_cost |-> Amount(inp.capex_usd),
     cumulative_discounted_gen |-> RInt(0)]

\* InitAccumulators as module-level totals that a later call does not reset:
\* the undiscounted totals of the run kept in prev are carried over
InitAccumulators_carriedOver(inp) ==
    [total_lifecycle_cost |->
        IF "acc" \in DOMAIN prev THEN prev.acc.total_lifecycle_cost
        ELSE Amount(inp.capex_usd),
     total_generation |->
        IF "acc" \in DOMAIN prev THEN prev.acc.total_generation ELSE RInt(0),
     npv_costs |-> Amount(inp.capex_usd),
     npv_generation |-> RInt(0),
     cumulative_discounted_cost |-> Amount(inp.capex_usd),
     cumulative_discounted_gen |-> RInt(0)]

\* the accumulators before the year loop
InitAccumulators(inp) ==
    [total_lifecycle_cost |-> Amount(inp.capex_usd),
     total_generation |-> RInt(0),
     npv_costs |-> Amount(inp.capex_usd),
     npv_generation |-> RInt(0),
     cumulative_discounted_cost |-> Amount(inp.capex_usd),
     cumulative_discounted_gen |-> RInt(0)]

\* Generation with the degradation never applied
Generation_undegraded(inp, y) == Amount(inp.annual_generation_mwh)

\* generation = base_generation * ((1 - degradation) ** (year - 1))
Generation(inp, y) ==
    RMul(Amount(inp.annual_generation_mwh),
         RPow(RSub(RInt(1), PerMille(inp.degradation_rate)), y - 1))

\* opex = base_opex * ((1 + opex_escalation) ** (year - 1))
Opex(inp, y) ==
    RMul(Amount(inp.annual_opex_usd),
         RPow(RAdd(RInt(1), PerMille(inp.opex_escalation_rate)), y - 1))

\* fuel = base_fuel * ((1 + fuel_escalation) ** (year - 1))
Fuel(inp, y) ==
    RMul(Amount(inp.annual_fuel_cost_usd),
         RPow(RAdd(RInt(1), PerMille(inp.fuel_escalation_rate)), y - 1))

\* DiscountFactor with year 1 undiscounted: (1 + discount_rate) ** (year - 1)
DiscountFactor_offByOne(inp, y) ==
    RPow(RAdd(RInt(1), PerMille(inp.discount_rate)), y - 1)

\* discount_factor = (1 + discount_rate) ** year
DiscountFactor(inp, y) == RPow(RAdd(RInt(1), PerMille(inp.discount_rate)), y)

\* YearValues with the generation left undiscounted
YearValues_undiscountedGen(inp, y) ==
    LET generation == Generation(inp, y)
        opex == Opex(inp, y)
        fuel == Fuel(inp, y)
        total_cost == RAdd(opex, fuel)
        discount_factor == DiscountFactor(inp, y)
    IN  [generation |-> generation,
         opex |-> opex,
         fuel |-> fuel,
         total_cost |-> total_cost,
         discounted_cost |-> RDiv(total_cost, discount_factor),
         discounted_gen |-> generation]

\* the values of one iteration of the year loop
YearValues(inp, y) ==
    LET generation == Generation(inp, y)
        opex == Opex(inp, y)
        fuel == Fuel(inp, y)
        total_cost == RAdd(opex, fuel)
        discount_factor == DiscountFactor(inp, y)
    IN  [generation |-> generation,
         opex |-> opex,
         fuel |-> fuel,
         total_cost |-> total_cost,
         discounted_cost |-> RDiv(total_cost, discount_factor),
         discounted_gen |-> RDiv(generation, discount_factor)]

\* Accumulate with the running cumulative cost taking the undiscounted cost
Accumulate_cumulativeUndiscounted(a, v) ==
    [total_lifecycle_cost |-> RAdd(a.total_lifecycle_cost, v.total_cost),
     total_generation |-> RAdd(a.total_generation, v.generation),
     npv_costs |-> RAdd(a.npv_costs, v.discounted_cost),
     npv_generation |-> RAdd(a.npv_generation, v.discounted_gen),
     cumulative_discounted_cost |-> RAdd(a.cumulative_discounted_cost, v.total_cost),
     cumulative_discounted_gen |-> RAdd(a.cumulative_discounted_gen, v.discounted_gen)]

\* the six += of the loop body
Accumulate(a, v) ==
    [total_lifecycle_cost |-> RAdd(a.total_lifecycle_cost, v.total_cost),
     total_generation |-> RAdd(a.total_generation, v.generation),
     npv_costs |-> RAdd(a.npv_costs, v.discounted_cost),
     npv_generation |-> RAdd(a.npv_generation, v.discounted_gen),
     cumulative_discounted_cost |-> RAdd(a.cumulative_discounted_cost, v.discounted_cost),
     cumulative_discounted_gen |-> RAdd(a.cumulative_discounted_gen, v.discounted_gen)]

\* AnnualRecord numbering the years from 0
AnnualRecord_zeroBased(y, v, a) ==
    [year |-> y - 1,
     generation_mwh |-> RRound(v.generation, 2),
     opex_usd |-> RRound(v.opex, 2),
     fuel_usd |-> RRound(v.fuel, 2),
     total_cost_usd |-> RRound(v.total_cost, 2),
     discounted_cost_usd |-> RRound(v.discounted_cost, 2),
     discounted_generation_mwh |-> RRound(v.discounted_gen, 2),
     cumulative_discounted_cost_usd |-> RRound(a.cumulative_discounted_cost, 2),
     cumulative_discounted_generation_mwh |-> RRound(a.cumulative_discounted_gen, 2)]

\* annual_breakdown.append({...}), a being the accumulators after the +=
AnnualRecord(y, v, a) ==
    [year |-> y,
     generation_mwh |-> RRound(v.generation, 2),
     opex_usd |-> RRound(v.opex, 2),
     fuel_usd |-> RRound(v.fuel, 2),
     total_cost_usd |-> RRound(v.total_cost, 2),
     discounted_cost_usd |-> RRound(v.discounted_cost, 2),
     discounted_generation_mwh |-> RRound(v.discounted_gen, 2),
     cumulative_discounted_cost_usd |-> RRound(a.cumulative_discounted_cost, 2),
     cumulative_discounted_generation_mwh |-> RRound(a.cumulative_discounted_gen, 2)]

\* lcoe_per_mwh = npv_costs / npv_generation if npv_generation > 0 else 0
LcoePerMwh(a) ==
    IF RLess(RInt(0), a.npv_generation)
    THEN RDiv(a.npv_costs, a.npv_generation)
    ELSE RInt(0)

\* LcoePerKwh dividing by 100
LcoePerKwh_by100(a) == DecDiv10(Dec(LcoePerMwh(a), 0), 2)

\* lcoe_per_kwh = lcoe_per_mwh / 1000
LcoePerKwh(a) == DecDiv10(Dec(LcoePerMwh(a), 0), 3)

\* truth value of a raw value used as a condition: None and 0 are falsy
Truthy(x) == IsNumber(x) /\ x[2] # 0

\* capacity_factor before rounding: <<"none", 0>> or <<"float", rational>>
CapacityFactor(inp) ==
    LET capacity == inp.capacity_mw
    IN  IF Truthy(capacity) /\ capacity[2] > 0
        THEN LET max_generation == capacity[2] * hours_per_year
             IN  <<"float", RMul(RDiv(Amount(inp.annual_generation_mwh),
                                      RInt(max_generation)),
                                 RInt(100))>>
        ELSE <<"none", RInt(0)>>

\* ReportedCapacityFactor testing the rounded value: a rounded 0.0 is dropped
ReportedCapacityFactor_roundedFirst(cf) ==
    IF cf[1] = "float" /\ RRound(cf[2], 1) # 0
    THEN <<"float", RRound(cf[2], 1)>>
    ELSE NoneVal

\* round(capacity_factor, 1) if capacity_factor else None
ReportedCapacityFactor(cf) ==
    IF cf[1] = "float" /\ ~RIsZero(cf[2])
    THEN <<"float", RRound(cf[2], 1)>>
    ELSE NoneVal

InputsSummary(inp) ==
    [technology |-> inp.technology,
     capacity_mw |-> inp.capacity_mw,
     capex_usd |-> inp.capex_usd,
     annual_opex_usd |-> inp.annual_opex_usd,
     annual_fuel_cost_usd |-> inp.annual_fuel_cost_usd,
     annual_generation_mwh |-> inp.annual_generation_mwh,
     project_lifetime_years |-> inp.project_lifetime_years,
     discount_rate |-> inp.discount_rate,
     opex_escalation_rate |-> inp.opex_escalation_rate,
     fuel_escalation_rate |-> inp.fuel_escalation_rate,
     degradation_rate |-> inp.degradation_rate]

\* the returned bundle
BuildResult(inp, a, breakdown) ==
    [lcoe_usd_per_mwh |-> RRound(LcoePerMwh(a), 2),
     lcoe_usd_per_kwh |-> PyRound(LcoePerKwh(a), 5),
     lcoe_cents_per_kwh |-> PyRound(DecMul10(LcoePerKwh(a), 2), 2),
     total_lifecycle_cost_usd |-> RRound(a.total_lifecycle_cost, 2),
     total_lifetime_generation_mwh |-> RRound(a.total_generation, 2),
     npv_costs_usd |-> RRound(a.npv_costs, 2),
     npv_generation_mwh |-> RRound(a.npv_generation, 2),
     capacity_factor |-> ReportedCapacityFactor(CapacityFactor(inp)),
     annual_breakdown |-> breakdown,
     inputs_summary |-> InputsSummary(inp)]

\* one iteration of the year loop on its state s = <<accumulators, breakdown>>
OneYear(inp, s, y) ==
    LET v == YearValues(inp, y)
        a == Accumulate(s[1], v)
    IN  <<a, Append(s[2], AnnualRecord(y, v, a))>>

\* the iterations from the year after the last record of s through year n;
\* the years are taken by halves, so that the evaluation does not nest once
\* per year
RECURSIVE Years(_, _, _)
Years(inp, s, n) ==
    LET y == Len(s[2]) + 1
    IN  IF y > n THEN s
        ELSE IF y = n THEN OneYear(inp, s, y)
        ELSE Years(inp, Years(inp, s, (y + n) \div 2), n)

\* the state of the year loop after years 1..y: <<accumulators, breakdown>>
YearLoop(inp, y) == Years(inp, <<InitAccumulators(inp), <<>>>>, y)

\* calculate_lcoe as a function of its argument
calculate_lcoe(inp) ==
    LET end == YearLoop(inp, inp.project_lifetime_years)
    IN  BuildResult(inp, end[1], end[2])

(***************************************************************************)
(* compare_projects.py: analyze_project, compare_projects and              *)
(* generate_recommendations.                                               *)
(*                                                                         *)
(* A project mapping is an input mapping of the validator with one more   *)
(* key, "_source": <<"absent", "">> or <<"text", label>>.  A list that is  *)
(* None or a list is held as [none |-> BOOLEAN, items |-> sequence].  A    *)
(* call that can raise returns [exception |-> name or "none", line |-> the *)
(* raising line or 0, value |-> what it returns when it does not raise].   *)
(***************************************************************************)
NoLabel == <<"absent", "">>

Label(s) == <<"text", s>>

\* a 2-decimal amount held in hundredths, as a number
Hundredths(h) == Rat(h, 100)

\* source = project.pop("_source", "unknown"): the label, and the mapping
\* the call leaves behind
PopSource(project) ==
    [source |-> IF project["_source"][1] = "absent" THEN "unknown"
                ELSE project["_source"][2],
     project |-> [project EXCEPT !["_source"] = NoLabel]]

\* capex_per_mw: capex / capacity when capacity is truthy, else None
CapexPerMw(v) ==
    IF Truthy(v.capacity_mw)
    THEN <<"float", RDiv(Amount(v.capex_usd), RInt(v.capacity_mw[2]))>>
    ELSE NoneVal

FailedEntry(source, error, project) ==
    [source |-> source,
     success |-> FALSE,
     error |-> error,
     technology |-> IF Has(project, "technology") THEN project.technology[2]
                    ELSE "unknown"]

SuccessEntry(source, v, r) ==
    [source |-> source,
     success |-> TRUE,
     technology |-> v.technology,
     capacity_mw |-> v.capacity_mw,
     lcoe_usd_per_mwh |-> r.lcoe_usd_per_mwh,
     lcoe_usd_per_kwh |-> r.lcoe_usd_per_kwh,
     lcoe_cents_per_kwh |-> r.lcoe_cents_per_kwh,
     capex_usd |-> v.capex_usd,
     capex_per_mw |-> CapexPerMw(v),
     project_lifetime_years |-> v.project_lifetime_years,
     total_lifecycle_cost_usd |-> r.total_lifecycle_cost_usd,
     total_lifetime_generation_mwh |-> r.total_lifetime_generation_mwh,
     npv_costs_usd |-> r.npv_costs_usd,
     capacity_factor |-> r.capacity_factor,
     discount_rate |-> v.discount_rate]

\* analyze_project(project): the entry it returns, the state it leaves its
\* argument in, and the mapping it passed to validate_input
analyze_project(project) ==
    LET popped == PopSource(project)
        v == validate_input(popped.project)
    IN  [entry |-> IF IsError(v)
                   THEN FailedEntry(popped.source, v, popped.project)
                   ELSE SuccessEntry(popped.source, v, calculate_lcoe(v)),
         project |-> popped.project,
         passed |-> popped.project]

\* analyze_project(p) called on the caller's own mapping instead of a copy
PassedProject_noCopy(ps, i) == [alias |-> TRUE, value |-> ps[i]]

\* the argument of analyze_project(p.copy()): a fresh mapping equal to p
PassedProject(ps, i) == [alias |-> FALSE, value |-> ps[i]]

\* [a for a in analyzed if a["success"]] and its complement
Successful(analyzed_) == SelectSeq(analyzed_, LAMBDA a : a.success)

Failed(analyzed_) == SelectSeq(analyzed_, LAMBDA a : ~a.success)

\* InsertByLcoe placing an entry before the entries of equal LCOE
InsertByLcoe_beforeEqual(sorted_, e) ==
    LET k == Cardinality({i \in 1..Len(sorted_) :
                            sorted_[i].lcoe_usd_per_mwh < e.lcoe_usd_per_mwh})
    IN  SubSeq(sorted_, 1, k) \o <<e>> \o SubSeq(sorted_, k + 1, Len(sorted_))

\* one step of the stable sort: e goes after every entry whose LCOE is not
\* greater than its own
InsertByLcoe(sorted_, e) ==
    LET k == Cardinality({i \in 1..Len(sorted_) :
                            sorted_[i].lcoe_usd_per_mwh <= e.lcoe_usd_per_mwh})
    IN  SubSeq(sorted_, 1, k) \o <<e>> \o SubSeq(sorted_, k + 1, Len(sorted_))

\* sorted(successful, key=lambda x: x["lcoe_usd_per_mwh"])
RECURSIVE SortedByLcoe(_)
SortedByLcoe(s) ==
    IF s = <<>> THEN <<>>
    ELSE InsertByLcoe(SortedByLcoe(SubSeq(s, 1, Len(s) - 1)), s[Len(s)])

\* for i, proj in enumerate(ranked): proj["rank"] = i + 1
WithRank(ranked_) ==
    [i \in 1..Len(ranked_) |-> ("rank" :> i) @@ ranked_[i]]

RECURSIVE SumLcoe(_)
SumLcoe(s) ==
    IF s = <<>> THEN 0
    ELSE SumLcoe(SubSeq(s, 1, Len(s) - 1)) + s[Len(s)].lcoe_usd_per_mwh

\* sum(lcoes) / len(lcoes), lcoes nonempty
AvgLcoe(s) == Rat(SumLcoe(s), 100 * Len(s))

\* min(lcoes), max(lcoes) in hundredths
MinLcoe(s) ==
    CHOOSE m \in {s[i].lcoe_usd_per_mwh : i \in 1..Len(s)} :
        \A i \in 1..Len(s) : m <= s[i].lcoe_usd_per_mwh

MaxLcoe(s) ==
    CHOOSE m \in {s[i].lcoe_usd_per_mwh : i \in 1..Len(s)} :
        \A i \in 1..Len(s) : m >= s[i].lcoe_usd_per_mwh

\* PctOver taken relative to the value itself instead of the base
PctOver_overItself(x, base) ==
    IF RLess(RInt(0), base) /\ ~RIsZero(x)
    THEN RRound(RMul(RDiv(RSub(x, base), x), RInt(100)), 1)
    ELSE 0

\* round((x - base) / base * 100, 1) if base > 0 else 0, in tenths
PctOver(x, base) ==
    IF RLess(RInt(0), base)
    THEN RRound(RMul(RDiv(RSub(x, base), base), RInt(100)), 1)
    ELSE 0

\* the relative metrics of every ranked entry
WithDeltas(ranked_, avg_lcoe) ==
    LET best == ranked_[1]
    IN  [i \in 1..Len(ranked_) |->
            ("lcoe_vs_best_pct" :>
                PctOver(Hundredths(ranked_[i].lcoe_usd_per_mwh),
                        Hundredths(best.lcoe_usd_per_mwh)))
            @@ ("lcoe_vs_avg_pct" :>
                PctOver(Hundredths(ranked_[i].lcoe_usd_per_mwh), avg_lcoe))
            @@ ranked_[i]]

\* the keys of by_technology, in the order in which they were inserted
RECURSIVE TechOrder(_)
TechOrder(s) ==
    IF s = <<>> THEN <<>>
    ELSE LET before == TechOrder(SubSeq(s, 1, Len(s) - 1))
             tech == s[Len(s)].technology
         IN  IF \E i \in 1..Len(before) : before[i] = tech THEN before
             ELSE Append(before, tech)

\* min(tech_projects, key=...): the first entry of the least LCOE
FirstCheapest(s) ==
    s[CHOOSE i \in 1..Len(s) :
        /\ s[i].lcoe_usd_per_mwh = MinLcoe(s)
        /\ \A j \in 1..(i - 1) : s[j].lcoe_usd_per_mwh # MinLcoe(s)]

\* tech_summary, as the sequence of its items
TechSummary(successful_) ==
    LET order == TechOrder(successful_)
    IN  [k \in 1..Len(order) |->
            LET tech_projects ==
                    SelectSeq(successful_, LAMBDA p : p.technology = order[k])
            IN  [technology |-> order[k],
                 count |-> Len(tech_projects),
                 avg_lcoe_usd_per_mwh |-> RRound(AvgLcoe(tech_projects), 2),
                 min_lcoe_usd_per_mwh |-> MinLcoe(tech_projects),
                 max_lcoe_usd_per_mwh |-> MaxLcoe(tech_projects),
                 best_project |-> FirstCheapest(tech_projects).source]]

Returns(x) == [exception |-> "none", line |-> 0, value |-> x]

Raises(name, line) == [exception |-> name, line |-> line, value |-> <<>>]

DidRaise(x) == x.exception # "none"

\* tech_lcoes.sort(key=lambda x: x[1]): stable, by average LCOE
RECURSIVE SortedByAvg(_)
SortedByAvg(s) ==
    IF s = <<>> THEN <<>>
    ELSE LET before == SortedByAvg(SubSeq(s, 1, Len(s) - 1))
             e == s[Len(s)]
             k == Cardinality({i \in 1..Len(before) :
                    before[i].avg_lcoe_usd_per_mwh <= e.avg_lcoe_usd_per_mwh})
         IN  SubSeq(before, 1, k) \o <<e>> \o SubSeq(before, k + 1, Len(before))

\* the "best project" recommendation; the percentage divides by the worst
\* LCOE without a guard
InvestmentRecommendation(best, worst) ==
    IF worst.lcoe_usd_per_mwh = 0 THEN Raises("ZeroDivisionError", 221)
    ELSE Returns(<<[priority |-> "HIGH",
                    type |-> "INVESTMENT",
                    technology |-> best.technology,
                    source |-> best.source,
                    lcoe_usd_per_mwh |-> best.lcoe_usd_per_mwh,
                    lcoe_advantage_vs_worst |->
                        worst.lcoe_usd_per_mwh - best.lcoe_usd_per_mwh,
                    percentage_better |->
                        RRound(RMul(RDiv(Hundredths(worst.lcoe_usd_per_mwh
                                                    - best.lcoe_usd_per_mwh),
                                         Hundredths(worst.lcoe_usd_per_mwh)),
                                    RInt(100)), 1)]>>)

\* the "technology diversification" recommendation: none, one, or a raise
\* where the description divides by the cheapest group's average
PortfolioRecommendation(tech_summary) ==
    IF Len(tech_summary) > 1
    THEN LET tech_lcoes == SortedByAvg(tech_summary)
             best_tech == tech_lcoes[1]
             worst_tech == tech_lcoes[Len(tech_lcoes)]
         IN  IF RLess(RMul(Hundredths(best_tech.avg_lcoe_usd_per_mwh), Rat(12, 10)),
                      Hundredths(worst_tech.avg_lcoe_usd_per_mwh))
             THEN IF best_tech.avg_lcoe_usd_per_mwh = 0
                  THEN Raises("ZeroDivisionError", 239)
                  ELSE Returns(<<[priority |-> "MEDIUM",
                                  type |-> "PORTFOLIO",
                                  worst_tech |-> worst_tech.technology,
                                  best_tech |-> best_tech.technology,
                                  worst_tech_lcoe |-> worst_tech.avg_lcoe_usd_per_mwh,
                                  pct_higher |->
                                      RRound(RMul(RDiv(Hundredths(
                                                  worst_tech.avg_lcoe_usd_per_mwh
                                                  - best_tech.avg_lcoe_usd_per_mwh),
                                               Hundredths(best_tech.avg_lcoe_usd_per_mwh)),
                                             RInt(100)), 1),
                                  potential_savings |->
                                      worst_tech.avg_lcoe_usd_per_mwh
                                      - best_tech.avg_lcoe_usd_per_mwh]>>)
             ELSE Returns(<<>>)
    ELSE Returns(<<>>)

\* the "high-cost outliers" recommendation: none or one
ReviewRecommendation(ranked_) ==
    LET avg_lcoe == AvgLcoe(ranked_)
        outliers == SelectSeq(ranked_, LAMBDA p :
                        RLess(RMul(avg_lcoe, Rat(13, 10)),
                              Hundredths(p.lcoe_usd_per_mwh)))
    IN  IF outliers # <<>>
        THEN <<[priority |-> "MEDIUM",
                type |-> "REVIEW",
                count |-> Len(outliers),
                projects |-> [i \in 1..Len(outliers) |-> outliers[i].source]]>>
        ELSE <<>>

\* generate_recommendations with the outlier review appended before the
\* technology diversification
generate_recommendations_reviewFirst(ranked_, tech_summary) ==
    IF ranked_ = <<>> THEN Returns(<<>>)
    ELSE LET investment ==
                 InvestmentRecommendation(ranked_[1], ranked_[Len(ranked_)])
             portfolio == PortfolioRecommendation(tech_summary)
         IN  IF DidRaise(investment) THEN investment
             ELSE IF DidRaise(portfolio) THEN portfolio
             ELSE Returns(investment.value \o ReviewRecommendation(ranked_)
                          \o portfolio.value)

\* recommendations, in the order in which they are appended; the first
\* exception raised on the way leaves the function
generate_recommendations(ranked_, tech_summary) ==
    IF ranked_ = <<>> THEN Returns(<<>>)
    ELSE LET investment ==
                 InvestmentRecommendation(ranked_[1], ranked_[Len(ranked_)])
             portfolio == PortfolioRecommendation(tech_summary)
         IN  IF DidRaise(investment) THEN investment
             ELSE IF DidRaise(portfolio) THEN portfolio
             ELSE Returns(investment.value \o portfolio.value
                          \o ReviewRecommendation(ranked_))

\* the locals of compare_projects
NoLocals ==
    [successful |-> <<>>, failed |-> <<>>, ranked |-> <<>>,
     avg_lcoe |-> RInt(0), min_lcoe |-> 0, max_lcoe |-> 0,
     tech_summary |-> <<>>, recommendations |-> <<>>]

\* lines 108-109
Partitioned(analyzed_) ==
    [NoLocals EXCEPT !.successful = Successful(analyzed_),
                     !.failed = Failed(analyzed_)]

\* lines 122-146: sort, rank, statistics, relative metrics
Ranked(c) ==
    [c EXCEPT !.ranked = WithDeltas(WithRank(SortedByLcoe(c.successful)),
                                    AvgLcoe(c.successful)),
              !.avg_lcoe = AvgLcoe(c.successful),
              !.min_lcoe = MinLcoe(c.successful),
              !.max_lcoe = MaxLcoe(c.successful)]

\* lines 149-166
Summarized(c) == [c EXCEPT !.tech_summary = TechSummary(c.successful)]

\* NoValidProjects returned without the failure list
NoValidProjects_withoutFailures(failed_) ==
    [success |-> FALSE,
     error |-> [code |-> "NO_VALID_PROJECTS"],
     failed_projects |-> [none |-> TRUE, items |-> <<>>]]

\* the failure returned at lines 112-119
NoValidProjects(failed_) ==
    [success |-> FALSE,
     error |-> [code |-> "NO_VALID_PROJECTS"],
     failed_projects |-> [none |-> FALSE, items |-> failed_]]

\* the mapping returned at lines 171-194
Comparison(ps, c) ==
    [success |-> TRUE,
     summary |->
        [total_projects |-> Len(ps),
         analyzed_successfully |-> Len(c.successful),
         failed_to_analyze |-> Len(c.failed),
         best_project |->
            [source |-> c.ranked[1].source,
             technology |-> c.ranked[1].technology,
             lcoe_usd_per_mwh |-> c.ranked[1].lcoe_usd_per_mwh],
         statistics |->
            [avg_lcoe_usd_per_mwh |-> RRound(c.avg_lcoe, 2),
             min_lcoe_usd_per_mwh |-> c.min_lcoe,
             max_lcoe_usd_per_mwh |-> c.max_lcoe,
             lcoe_spread_usd_per_mwh |-> c.max_lcoe - c.min_lcoe,
             lcoe_spread_pct |-> PctOver(Hundredths(c.max_lcoe),
                                         Hundredths(c.min_lcoe))]],
     by_technology |-> c.tech_summary,
     rankings |-> c.ranked,
     recommendations |-> c.recommendations,
     failed_projects |-> [none |-> c.failed = <<>>, items |-> c.failed]]

\* compare_projects as a function of its argument: what it returns, or the
\* exception it raises
compare_projects(ps) ==
    LET analyzed_ == [i \in 1..Len(ps) |->
                        analyze_project(PassedProject(ps, i).value).entry]
        c == Partitioned(analyzed_)
    IN  IF c.successful = <<>> THEN Returns(NoValidProjects(c.failed))
        ELSE LET s == Summarized(Ranked(c))
                 recs == generate_recommendations(s.ranked, s.tech_summary)
             IN  IF DidRaise(recs) THEN recs
                 ELSE Returns(Comparison(ps,
                                [s EXCEPT !.recommendations = recs.value]))

(***************************************************************************)
(* sensitivity_analysis.py: generate_range and run_sensitivity.            *)
(*                                                                         *)
(* A parameter value is a rational in the parameter's natural unit (a     *)
(* rate of 0.08 is 2/25).  The --range string is held as the sequence of   *)
(* its comma-separated parts, each a decimal literal                       *)
(* [sign, whole, frac]: "-0.02" is [sign |-> -1, whole |-> 0,              *)
(* frac |-> <<0, 2>>]; None or the empty string is <<>>.                   *)
(***************************************************************************)
Literal(sign, whole, frac) == [sign |-> sign, whole |-> whole, frac |-> frac]

\* the digits d1 d2 ... dn read as the integer d1 d2 ... dn
RECURSIVE DigitsValue(_)
DigitsValue(ds) ==
    IF ds = <<>> THEN 0
    ELSE 10 * DigitsValue(SubSeq(ds, 1, Len(ds) - 1)) + ds[Len(ds)]

\* float(x) of a part of the --range string
FloatOf(x) ==
    Rat(x.sign * (x.whole * Pow10(Len(x.frac)) + DigitsValue(x.frac)),
        Pow10(Len(x.frac)))

\* parts = custom_range.split(",")
Parts(custom_range) == custom_range

RateParameters ==
    {"discount_rate", "degradation_rate", "opex_escalation_rate",
     "fuel_escalation_rate"}

MultiplierRange(lo, hi, step) ==
    [min |-> lo, max |-> hi, step |-> step, type |-> "multiplier"]

AbsoluteRange(lo, hi, step) ==
    [min |-> lo, max |-> hi, step |-> step, type |-> "absolute"]

DEFAULT_RANGES ==
    [capex_usd |-> MultiplierRange(Rat(7, 10), Rat(13, 10), Rat(1, 10)),
     annual_opex_usd |-> MultiplierRange(Rat(7, 10), Rat(13, 10), Rat(1, 10)),
     annual_fuel_cost_usd |-> MultiplierRange(Rat(7, 10), Rat(13, 10), Rat(1, 10)),
     annual_generation_mwh |-> MultiplierRange(Rat(8, 10), Rat(12, 10), Rat(5, 100)),
     project_lifetime_years |-> AbsoluteRange(RInt(15), RInt(35), RInt(5)),
     discount_rate |-> AbsoluteRange(Rat(4, 100), Rat(14, 100), Rat(2, 100)),
     degradation_rate |-> AbsoluteRange(RInt(0), Rat(2, 100), Rat(5, 1000)),
     opex_escalation_rate |-> AbsoluteRange(RInt(0), Rat(5, 100), Rat(1, 100)),
     fuel_escalation_rate |-> AbsoluteRange(RInt(0), Rat(5, 100), Rat(1, 100))]

\* the tolerance of the loop test: current <= max_val + 0.0001
RangeTolerance == Rat(1, 10000)

\* round(current, 6), as a number
Round6(x) == Rat(RRound(x, 6), Pow10(6))

\* round(x, 2), as a number
Round2(x) == Rat(RRound(x, 2), 100)

\* the multipliers of a multiplier-kind range
Multipliers(config) ==
    <<config.min,
      RAdd(config.min, config.step),
      RAdd(config.min, RMul(RInt(2), config.step)),
      RInt(1),
      RSub(config.max, RMul(RInt(2), config.step)),
      RSub(config.max, config.step),
      config.max>>

\* the multipliers used for a parameter without a default range
FallbackMultipliers ==
    <<Rat(7, 10), Rat(8, 10), Rat(9, 10), RInt(1), Rat(11, 10), Rat(12, 10),
      Rat(13, 10)>>

ReturnValues(vs) == [loop |-> FALSE, values |-> vs]

\* a while loop from lo to hi by step is entered
EnterLoop(lo, hi, step) ==
    [loop |-> TRUE, current |-> lo, max_val |-> hi, step |-> step]

\* generate_range up to its return or to the entry of its while loop
GenerateRangeEntry(base_value, param_name, custom_range) ==
    IF custom_range # <<>>
    THEN LET parts == Parts(custom_range)
         IN  IF Len(parts) = 3
             THEN EnterLoop(FloatOf(parts[1]), FloatOf(parts[2]), FloatOf(parts[3]))
             ELSE ReturnValues([i \in 1..Len(parts) |-> FloatOf(parts[i])])
    ELSE IF param_name \notin DOMAIN DEFAULT_RANGES
    THEN ReturnValues([i \in 1..7 |-> RMul(base_value, FallbackMultipliers[i])])
    ELSE LET config == DEFAULT_RANGES[param_name]
         IN  IF config.type = "multiplier"
             THEN ReturnValues([i \in 1..7 |->
                        Round2(RMul(base_value, Multipliers(config)[i]))])
             ELSE EnterLoop(config.min, config.max, config.step)

\* RangeLoopTest without the tolerance: while current <= max_val
RangeLoopTest_noTolerance(l) == RLeq(l.current, l.max_val)

\* while current <= max_val + 0.0001
RangeLoopTest(l) == RLeq(l.current, RAdd(l.max_val, RangeTolerance))

\* a parameter set as a mapping with every key present, as dict(base_inputs)
AsMapping(inp) ==
    [capex_usd |-> FloatVal(inp.capex_usd),
     annual_generation_mwh |-> FloatVal(inp.annual_generation_mwh),
     project_lifetime_years |-> IntVal(inp.project_lifetime_years),
     discount_rate |-> FloatVal(inp.discount_rate),
     annual_opex_usd |-> FloatVal(inp.annual_opex_usd),
     annual_fuel_cost_usd |-> FloatVal(inp.annual_fuel_cost_usd),
     opex_escalation_rate |-> FloatVal(inp.opex_escalation_rate),
     fuel_escalation_rate |-> FloatVal(inp.fuel_escalation_rate),
     degradation_rate |-> FloatVal(inp.degradation_rate),
     capacity_mw |-> inp.capacity_mw,
     technology |-> Tech(inp.technology)]

\* base_inputs.get(param_name, 0), in the parameter's natural unit
BaseValue(inp, param_name) ==
    IF param_name = "project_lifetime_years" THEN RInt(inp[param_name])
    ELSE IF param_name \in RateParameters THEN PerMille(inp[param_name])
    ELSE Amount(inp[param_name])

\* int(value): truncation towards zero
IntOf(x) == IF x.n >= 0 THEN x.n \div x.d ELSE -((-x.n) \div x.d)

\* the value as the validator's mapping holds it (in thousandths)
AsRaw(param_name, value) ==
    IF param_name = "project_lifetime_years" THEN IntVal(IntOf(value))
    ELSE FloatVal(RMul(value, RInt(1000)).n)

\* the value is a whole number of the units the mapping is held in
Representable(param_name, value) ==
    IF param_name = "project_lifetime_years" THEN TRUE
    ELSE RMul(value, RInt(1000)).d = 1

\* modified = dict(base_inputs); modified[param_name] = value
Modified(inp, param_name, value) ==
    [AsMapping(inp) EXCEPT ![param_name] = AsRaw(param_name, value)]

\* (x - base) / base * 100 if base > 0 else 0
PctChange(x, base) ==
    IF RLess(RInt(0), base)
    THEN RMul(RDiv(RSub(x, base), base), RInt(100))
    ELSE RInt(0)

\* one entry of results; the percentages are held in hundredths
SensitivityPoint(value, base_value, lcoe, base_lcoe) ==
    [value |-> value,
     value_pct_change |-> RRound(PctChange(value, base_value), 2),
     lcoe_usd_per_mwh |-> lcoe,
     lcoe_pct_change |-> RRound(PctChange(Hundredths(lcoe), Hundredths(base_lcoe)), 2),
     is_base |-> RLess(RAbs(RSub(value, base_value)), RangeTolerance)]

\* the elasticities of the points that are not the base point
RECURSIVE Elasticities(_)
Elasticities(results) ==
    IF results = <<>> THEN <<>>
    ELSE LET before == Elasticities(SubSeq(results, 1, Len(results) - 1))
             r == results[Len(results)]
         IN  IF ~r.is_base /\ r.value_pct_change # 0
             THEN Append(before, Rat(r.lcoe_pct_change, r.value_pct_change))
             ELSE before

RECURSIVE SumOf(_)
SumOf(s) ==
    IF s = <<>> THEN RInt(0)
    ELSE RAdd(SumOf(SubSeq(s, 1, Len(s) - 1)), s[Len(s)])

\* AvgElasticity dividing the sum by the number of retained points
AvgElasticity_overAllPoints(results) ==
    LET elasticities == Elasticities(results)
    IN  IF elasticities # <<>>
        THEN RDiv(SumOf(elasticities), RInt(Len(results)))
        ELSE RInt(0)

\* sum(elasticities) / len(elasticities) if elasticities else 0
AvgElasticity(results) ==
    LET elasticities == Elasticities(results)
    IN  IF elasticities # <<>>
        THEN RDiv(SumOf(elasticities), RInt(Len(elasticities)))
        ELSE RInt(0)

interpret_elasticity(elasticity) ==
    LET abs_e == RAbs(elasticity)
    IN  IF RLess(abs_e, Rat(1, 10)) THEN "Negligible impact - LCOE is insensitive to this parameter"
        ELSE IF RLess(abs_e, Rat(5, 10)) THEN "Low impact - modest changes in LCOE"
        ELSE IF RLess(abs_e, RInt(1)) THEN "Moderate impact - significant influence on LCOE"
        ELSE "High impact - critical parameter that strongly affects LCOE"

\* SensitivityBundle counting every candidate value as tested
SensitivityBundle_countsCandidates(param_name, base_value, base_lcoe, results) ==
    [parameter |-> param_name,
     base_value |-> base_value,
     base_lcoe_usd_per_mwh |-> base_lcoe,
     elasticity |-> RRound(AvgElasticity(results), 3),
     elasticity_interpretation |-> interpret_elasticity(AvgElasticity(results)),
     values_tested |-> Len(values),
     min_lcoe |-> IF results # <<>> THEN MinLcoe(results) ELSE 0,
     max_lcoe |-> IF results # <<>> THEN MaxLcoe(results) ELSE 0,
     lcoe_range |-> IF results # <<>> THEN MaxLcoe(results) - MinLcoe(results)
                    ELSE 0,
     results |-> results]

\* the mapping run_sensitivity returns (elasticity in thousandths)
SensitivityBundle(param_name, base_value, base_lcoe, results) ==
    [parameter |-> param_name,
     base_value |-> base_value,
     base_lcoe_usd_per_mwh |-> base_lcoe,
     elasticity |-> RRound(AvgElasticity(results), 3),
     elasticity_interpretation |-> interpret_elasticity(AvgElasticity(results)),
     values_tested |-> Len(results),
     min_lcoe |-> IF results # <<>> THEN MinLcoe(results) ELSE 0,
     max_lcoe |-> IF results # <<>> THEN MaxLcoe(results) ELSE 0,
     lcoe_range |-> IF results # <<>> THEN MaxLcoe(results) - MinLcoe(results)
                    ELSE 0,
     results |-> results]

\* params_to_analyze of run_full_sensitivity
ParamsToAnalyze(base_inputs) ==
    LET always == <<"capex_usd", "annual_opex_usd", "annual_generation_mwh",
                    "project_lifetime_years", "discount_rate", "degradation_rate">>
        with_fuel == IF base_inputs.annual_fuel_cost_usd > 0
                     THEN always \o <<"annual_fuel_cost_usd", "fuel_escalation_rate">>
                     ELSE always
    IN  IF base_inputs.annual_opex_usd > 0
        THEN Append(with_fuel, "opex_escalation_rate")
        ELSE with_fuel

\* if param in base_inputs or base_value > 0, base_value being
\* base_inputs.get(param, 0): 0 for a key that is not there
IsAnalyzed(base_inputs, param) == param \in DOMAIN base_inputs

\* RankingEntry with the elasticity left signed
RankingEntry_signed(bundle) ==
    [parameter |-> bundle.parameter,
     elasticity |-> bundle.elasticity,
     lcoe_range |-> bundle.lcoe_range]

\* one entry of the list that is ranked
RankingEntry(bundle) ==
    [parameter |-> bundle.parameter,
     elasticity |-> Abs(bundle.elasticity),
     lcoe_range |-> bundle.lcoe_range]

\* e put into a list sorted by descending elasticity, behind the entries
\* that are not smaller (sorted with reverse=True keeps equal entries in
\* their order)
RECURSIVE InsertByElasticity(_, _)
InsertByElasticity(sorted_, e) ==
    IF sorted_ = <<>> THEN <<e>>
    ELSE IF Head(sorted_).elasticity >= e.elasticity
    THEN <<Head(sorted_)>> \o InsertByElasticity(Tail(sorted_), e)
    ELSE <<e>> \o sorted_

\* ranked = sorted([...], key=lambda x: x["elasticity"], reverse=True)
RECURSIVE RankedByElasticity(_)
RankedByElasticity(all_results) ==
    IF all_results = <<>> THEN <<>>
    ELSE InsertByElasticity(
            RankedByElasticity(SubSeq(all_results, 1, Len(all_results) - 1)),
            RankingEntry(all_results[Len(all_results)]))

\* the mapping run_full_sensitivity returns; by_parameter is held as the
\* list of its bundles in insertion order
FullReport(all_results) ==
    LET ranked == RankedByElasticity(all_results)
    IN  [summary |->
            [parameters_analyzed |-> Len(all_results),
             most_sensitive_parameter |->
                IF ranked # <<>> THEN <<"text", ranked[1].parameter>>
                ELSE <<"none", "">>,
             parameter_ranking |-> ranked],
         by_parameter |-> all_results]

(***************************************************************************)
(* The callers: main() validates and then calculates; the tests also call  *)
(* calculate_lcoe directly on a hand-built parameter set.                  *)
(***************************************************************************)
Nil == [nil |-> TRUE]

\* the longest lifetime of the engine runs of Spec
MaxLifetime == 3

\* the mappings given to the validator alone: every field absent, out of
\* range or of the wrong type, at a limit, or in range
ValidatorInputs ==
    [capex_usd : {Absent, IntVal(0), IntVal(Whole(1000))},
     annual_generation_mwh : {Absent, StrVal, FloatVal(Whole(3))},
     project_lifetime_years : {Absent, FloatVal(25), IntVal(MaxLifetimeYears),
                               IntVal(MaxLifetimeYears + 1)},
     discount_rate : {Absent, FloatVal(MaxDiscountRate), FloatVal(MaxDiscountRate + 1)},
     annual_opex_usd : {Absent, IntVal(Whole(-1)), IntVal(Whole(100))},
     annual_fuel_cost_usd : {Absent, NoneVal, IntVal(Whole(10))},
     opex_escalation_rate : {Absent, FloatVal(MaxEscalationRate),
                             FloatVal(MaxEscalationRate + 1)},
     fuel_escalation_rate : {Absent, FloatVal(-1), IntVal(0)},
     degradation_rate : {Absent, FloatVal(MaxDegradationRate),
                         FloatVal(MaxDegradationRate + 1)},
     capacity_mw : {Absent, IntVal(-1), IntVal(0), IntVal(1)},
     technology : {TechAbsent, Tech("solar_pv")}]

\* the rates the engine is run with (thousandths)
EngineDiscountRates == {0, 100, 300}

EngineDegradationRates == {0, 100}

EngineEscalationRates == {0, 200}

\* a capex of 0.125 as the only cost
FractionalCapexInputs ==
    [capex_usd : {FloatVal(125)},
     annual_generation_mwh : {IntVal(Whole(3))},
     project_lifetime_years : {IntVal(l) : l \in 1..MaxLifetime},
     discount_rate : {FloatVal(r) : r \in EngineDiscountRates},
     annual_opex_usd : {Absent},
     annual_fuel_cost_usd : {Absent},
     opex_escalation_rate : {FloatVal(0)},
     fuel_escalation_rate : {FloatVal(0)},
     degradation_rate : {FloatVal(0)},
     capacity_mw : {Absent},
     technology : {Tech("solar_pv")}]

\* the mappings the engine is run on: the rates are always supplied
EngineInputs ==
    FractionalCapexInputs \cup
    [capex_usd : {IntVal(Whole(1)), IntVal(Whole(1000))},
     annual_generation_mwh : {IntVal(0), IntVal(Whole(3)), IntVal(Whole(1000))},
     project_lifetime_years : {IntVal(l) : l \in 1..MaxLifetime},
     discount_rate : {FloatVal(r) : r \in EngineDiscountRates},
     annual_opex_usd : {Absent, IntVal(Whole(100))},
     annual_fuel_cost_usd : {Absent, IntVal(Whole(10))},
     opex_escalation_rate : {FloatVal(r) : r \in EngineEscalationRates},
     fuel_escalation_rate : {FloatVal(r) : r \in EngineEscalationRates},
     degradation_rate : {FloatVal(r) : r \in EngineDegradationRates},
     capacity_mw : {Absent, IntVal(-1), IntVal(0), IntVal(1)},
     technology : {Tech("solar_pv")}]

NumericFields ==
    {"capex_usd", "annual_generation_mwh", "project_lifetime_years",
     "discount_rate", "annual_opex_usd", "annual_fuel_cost_usd",
     "opex_escalation_rate", "fuel_escalation_rate", "degradation_rate"}

\* a hand-built LCOEInput, as the tests pass to calculate_lcoe
AsInputs(d) ==
    [capex_usd |-> d.capex_usd[2],
     annual_generation_mwh |-> d.annual_generation_mwh[2],
     project_lifetime_years |-> d.project_lifetime_years[2],
     discount_rate |-> d.discount_rate[2],
     annual_opex_usd |-> d.annual_opex_usd[2],
     annual_fuel_cost_usd |-> d.annual_fuel_cost_usd[2],
     opex_escalation_rate |-> d.opex_escalation_rate[2],
     fuel_escalation_rate |-> d.fuel_escalation_rate[2],
     degradation_rate |-> d.degradation_rate[2],
     capacity_mw |-> GetOrNone(d, "capacity_mw"),
     technology |-> IF d.technology[1] = "absent" THEN "generic"
                    ELSE d.technology[2]]

Idle ==
    /\ validated = Nil
    /\ via = "none"
    /\ inputs = Nil
    /\ year = 0
    /\ acc = Nil
    /\ annual_breakdown = <<>>
    /\ result = Nil

CompareIdle ==
    /\ projects = <<>>
    /\ passed = <<>>
    /\ analyzed = <<>>
    /\ locals = NoLocals
    /\ comparison = Nil
    /\ cpc = "idle"

NoRun ==
    [index |-> 0, results |-> <<>>, base_lcoe |-> 0, base_value |-> RInt(0),
     validator_passes |-> 0, engine_passes |-> 0]

NoLoop == [current |-> RInt(0), max_val |-> RInt(0), step |-> RInt(0)]

\* run_full_sensitivity is not running
NoFull == [params_to_analyze |-> <<>>, all_results |-> <<>>]

SensitivityIdle ==
    /\ sargs = Nil
    /\ spc = "idle"
    /\ rloop = NoLoop
    /\ values = <<>>
    /\ run = NoRun
    /\ sensitivity = Nil
    /\ full = NoFull

InitValidate ==
    /\ data \in ValidatorInputs
    /\ pc = "start"
    /\ prev = Nil
    /\ Idle
    /\ CompareIdle
    /\ SensitivityIdle

Init ==
    /\ data \in EngineInputs
    /\ pc = "start"
    /\ prev = Nil
    /\ Idle
    /\ CompareIdle
    /\ SensitivityIdle

\* validated = validate_input(input_data)
ValidateCall ==
    /\ pc = "start"
    /\ validated' = validate_input(data)
    /\ via' = "validator"
    /\ pc' = IF IsError(validated') THEN "rejected" ELSE "validated"
    /\ UNCHANGED <<data, inputs, year, acc, annual_breakdown, result, prev>>
    /\ UNCHANGED <<compareVars, sensitivityVars>>

\* result = calculate_lcoe(validated): entry, up to the loop
CalcStart ==
    /\ pc = "validated"
    /\ inputs' = validated
    /\ acc' = InitAccumulators(validated)
    /\ year' = 0
    /\ annual_breakdown' = <<>>
    /\ pc' = "loop"
    /\ UNCHANGED <<data, validated, via, result, prev>>
    /\ UNCHANGED <<compareVars, sensitivityVars>>

\* calculate_lcoe(inputs) on a hand-built parameter set
DirectCall ==
    /\ pc = "start"
    /\ \A f \in NumericFields : IsNumber(data[f])
    /\ inputs' = AsInputs(data)
    /\ acc' = InitAccumulators(inputs')
    /\ year' = 0
    /\ annual_breakdown' = <<>>
    /\ via' = "direct"
    /\ pc' = "loop"
    /\ UNCHANGED <<data, validated, result, prev>>
    /\ UNCHANGED <<compareVars, sensitivityVars>>

\* one iteration of: for year in range(1, lifetime + 1)
CalcYear ==
    /\ pc = "loop"
    /\ year < inputs.project_lifetime_years
    /\ year' = year + 1
    /\ LET v == YearValues(inputs, year')
       IN  /\ acc' = Accumulate(acc, v)
           /\ annual_breakdown' = Append(annual_breakdown, AnnualRecord(year', v, acc'))
    /\ UNCHANGED <<data, validated, pc, via, inputs, result, prev>>
    /\ UNCHANGED <<compareVars, sensitivityVars>>

\* after the loop: the LCOE, the capacity factor and the returned bundle
CalcFinish ==
    /\ pc = "loop"
    /\ year >= inputs.project_lifetime_years
    /\ result' = BuildResult(inputs, acc, annual_breakdown)
    /\ pc' = "done"
    /\ UNCHANGED <<data, validated, via, inputs, year, acc, annual_breakdown, prev>>
    /\ UNCHANGED <<compareVars, sensitivityVars>>

\* the next invocation: the same mapping again, or the mapping with another
\* discount rate or another degradation rate.  prev keeps a finished run to
\* compare later ones with: the run that has just returned, or the run kept
\* before, which then has other invocations between it and the next one
NextCall ==
    /\ pc = "done"
    /\ \/ data' = data
       \/ \E r \in EngineDiscountRates :
            /\ r # data.discount_rate[2]
            /\ data' = [data EXCEPT !.discount_rate = FloatVal(r)]
       \/ \E r \in EngineDegradationRates :
            /\ r # data.degradation_rate[2]
            /\ data' = [data EXCEPT !.degradation_rate = FloatVal(r)]
    /\ \/ prev' = [inputs |-> inputs, acc |-> acc, result |-> result,
                   via |-> via, between |-> FALSE]
       \/ /\ "inputs" \in DOMAIN prev
          /\ prev' = [prev EXCEPT !.between = TRUE]
    /\ pc' = "start"
    /\ validated' = Nil
    /\ via' = "none"
    /\ inputs' = Nil
    /\ year' = 0
    /\ acc' = Nil
    /\ annual_breakdown' = <<>>
    /\ result' = Nil
    /\ UNCHANGED <<compareVars, sensitivityVars>>

Next ==
    \/ ValidateCall
    \/ CalcStart
    \/ DirectCall
    \/ CalcYear
    \/ CalcFinish
    \/ NextCall

\* the validator and the engine, as main() and the tests drive them
Spec == Init /\ [][Next]_vars

NextValidate == ValidateCall

\* the validator alone, on mappings of every shape
SpecValidate == InitValidate /\ [][NextValidate]_vars

(***************************************************************************)
(* The comparator: compare_projects(projects) on a list of project         *)
(* mappings, as main() of compare_projects.py calls it.                    *)
(***************************************************************************)
\* the longest list of projects compared
MaxProjects == 3

\* a project of one year at discount rate 0: its LCOE is capex / generation
Project(capex, gen, rate, capacity, tech, label) ==
    ("_source" :> label) @@
    [capex_usd |-> capex,
     annual_generation_mwh |-> gen,
     project_lifetime_years |-> IntVal(1),
     discount_rate |-> rate,
     annual_opex_usd |-> Absent,
     annual_fuel_cost_usd |-> Absent,
     opex_escalation_rate |-> Absent,
     fuel_escalation_rate |-> Absent,
     degradation_rate |-> Absent,
     capacity_mw |-> capacity,
     technology |-> tech]

\* the projects compared: LCOE 40, 55, 70 and 100 USD/MWh, a second project
\* of LCOE 40, one whose LCOE rounds to 0.00, and two that do not validate;
\* two of them carry no _source label
CompareProjects ==
    {Project(IntVal(Whole(40)), IntVal(Whole(1)), FloatVal(0), IntVal(2), Tech("solar_pv"), Label("a.json")),
     Project(IntVal(Whole(55)), IntVal(Whole(1)), FloatVal(0), Absent, Tech("wind"), Label("b.json")),
     Project(IntVal(Whole(70)), IntVal(Whole(1)), FloatVal(0), Absent, Tech("gas"), Label("c.json")),
     Project(IntVal(Whole(80)), IntVal(Whole(2)), FloatVal(0), Absent, Tech("wind"), Label("d.json")),
     Project(IntVal(Whole(1)), IntVal(Whole(1000)), FloatVal(0), Absent, Tech("solar_pv"), Label("z.json")),
     Project(IntVal(Whole(100)), IntVal(Whole(1)), FloatVal(0), Absent, TechAbsent, NoLabel),
     Project(IntVal(Whole(0)), IntVal(Whole(1)), FloatVal(0), Absent, TechAbsent, Label("f.json")),
     Project(IntVal(Whole(40)), IntVal(Whole(1)), Absent, Absent, Tech("gas"), NoLabel)}

\* every list of at most MaxProjects of them
CompareInputs ==
    UNION {[1..n -> CompareProjects] : n \in 0..MaxProjects}

InitCompare ==
    /\ projects \in CompareInputs
    /\ passed = <<>>
    /\ analyzed = <<>>
    /\ locals = NoLocals
    /\ comparison = Nil
    /\ cpc = "analyze"
    /\ data = Nil
    /\ pc = "idle"
    /\ prev = Nil
    /\ Idle
    /\ SensitivityIdle

\* one element of: analyzed = [analyze_project(p.copy()) for p in projects]
AnalyzeProject ==
    /\ cpc = "analyze"
    /\ Len(analyzed) < Len(projects)
    /\ LET i == Len(analyzed) + 1
           arg == PassedProject(projects, i)
           r == analyze_project(arg.value)
       IN  /\ analyzed' = Append(analyzed, r.entry)
           /\ passed' = Append(passed, r.passed)
           /\ projects' = IF arg.alias THEN [projects EXCEPT ![i] = r.project]
                          ELSE projects
    /\ UNCHANGED <<locals, comparison, cpc, engineVars, sensitivityVars>>

\* successful = [...]; failed = [...]
Partition ==
    /\ cpc = "analyze"
    /\ Len(analyzed) = Len(projects)
    /\ locals' = Partitioned(analyzed)
    /\ cpc' = "partitioned"
    /\ UNCHANGED <<projects, passed, analyzed, comparison, engineVars, sensitivityVars>>

\* if not successful: return the NO_VALID_PROJECTS failure
CompareFail ==
    /\ cpc = "partitioned"
    /\ locals.successful = <<>>
    /\ comparison' = NoValidProjects(locals.failed)
    /\ cpc' = "returned"
    /\ UNCHANGED <<projects, passed, analyzed, locals, engineVars, sensitivityVars>>

\* sort by LCOE, add the ranks, the statistics and the relative metrics
CompareRank ==
    /\ cpc = "partitioned"
    /\ locals.successful # <<>>
    /\ locals' = Ranked(locals)
    /\ cpc' = "ranked"
    /\ UNCHANGED <<projects, passed, analyzed, comparison, engineVars, sensitivityVars>>

\* group by technology and summarise each group
CompareSummarize ==
    /\ cpc = "ranked"
    /\ locals' = Summarized(locals)
    /\ cpc' = "summarized"
    /\ UNCHANGED <<projects, passed, analyzed, comparison, engineVars, sensitivityVars>>

\* recommendations = generate_recommendations(ranked, tech_summary); an
\* exception raised there leaves compare_projects
CompareRecommend ==
    /\ cpc = "summarized"
    /\ LET recs == generate_recommendations(locals.ranked, locals.tech_summary)
       IN  IF DidRaise(recs)
           THEN /\ comparison' = recs
                /\ cpc' = "raised"
                /\ UNCHANGED locals
           ELSE /\ locals' = [locals EXCEPT !.recommendations = recs.value]
                /\ cpc' = "recommended"
                /\ UNCHANGED comparison
    /\ UNCHANGED <<projects, passed, analyzed, engineVars, sensitivityVars>>

\* return the comparison
CompareReturn ==
    /\ cpc = "recommended"
    /\ comparison' = Comparison(projects, locals)
    /\ cpc' = "returned"
    /\ UNCHANGED <<projects, passed, analyzed, locals, engineVars, sensitivityVars>>

NextCompare ==
    \/ AnalyzeProject
    \/ Partition
    \/ CompareFail
    \/ CompareRank
    \/ CompareSummarize
    \/ CompareRecommend
    \/ CompareReturn

\* compare_projects on every list of CompareInputs
SpecCompare == InitCompare /\ [][NextCompare]_vars

(***************************************************************************)
(* The sensitivity analyzer: main() of sensitivity_analysis.py with        *)
(* --vary: generate_range, then run_sensitivity.                           *)
(***************************************************************************)
\* the most values the while loop of generate_range is followed for
MaxRangeValues == 8

\* a base mapping of two years
BaseProject(capex, gen, rate, opex, fuel) ==
    [capex_usd |-> capex,
     annual_generation_mwh |-> gen,
     project_lifetime_years |-> IntVal(2),
     discount_rate |-> FloatVal(rate),
     annual_opex_usd |-> opex,
     annual_fuel_cost_usd |-> fuel,
     opex_escalation_rate |-> FloatVal(0),
     fuel_escalation_rate |-> FloatVal(0),
     degradation_rate |-> FloatVal(0),
     capacity_mw |-> Absent,
     technology |-> Tech("solar_pv")]

\* the base mappings: with and without discounting and opex, one with an
\* annual generation of 100.125 MWh and one with a capex of 0.003 USD
SensitivityData ==
    {BaseProject(IntVal(Whole(1000)), IntVal(Whole(100)), 80, IntVal(Whole(100)), Absent),
     BaseProject(IntVal(Whole(1000)), IntVal(Whole(100)), 0, IntVal(0), Absent),
     BaseProject(IntVal(Whole(1000)), FloatVal(100125), 0, IntVal(0), Absent),
     BaseProject(FloatVal(3), IntVal(Whole(100)), 0, IntVal(0), Absent)}

\* --range strings for a rate: min,max,step triples (one with step 0, one
\* with a negative step, one with min > max, one running past the largest
\* valid rate) and lists of one, two, three and four values
RangeStrings ==
    {<<Literal(1, 0, <<0, 4>>), Literal(1, 0, <<1, 4>>), Literal(1, 0, <<0, 2>>)>>,
     <<Literal(1, 0, <<0, 5>>), Literal(1, 0, <<0, 8>>), Literal(1, 0, <<1, 0>>)>>,
     <<Literal(1, 0, <<0, 5>>), Literal(1, 0, <<0, 8>>)>>,
     <<Literal(1, 0, <<0, 5>>), Literal(1, 0, <<0, 8>>), Literal(1, 0, <<1, 0>>),
       Literal(1, 0, <<1, 2>>)>>,
     <<Literal(1, 0, <<0, 8>>)>>,
     <<Literal(1, 0, <<0, 4>>), Literal(1, 0, <<0, 8>>), Literal(1, 0, <<>>)>>,
     <<Literal(1, 0, <<0, 4>>), Literal(1, 0, <<0, 8>>), Literal(-1, 0, <<0, 2>>)>>,
     <<Literal(1, 0, <<3>>), Literal(1, 0, <<2>>), Literal(1, 0, <<0, 5>>)>>,
     <<Literal(1, 0, <<2, 8>>), Literal(1, 0, <<3, 2>>), Literal(1, 0, <<0, 2>>)>>}

\* --range strings for the lifetime: "1,2,1.00005", whose second value
\* 2.00005 lies above max by less than the tolerance, and the list "0.5,1,2,60"
LifetimeRangeStrings ==
    {<<Literal(1, 1, <<>>), Literal(1, 2, <<>>), Literal(1, 1, <<0, 0, 0, 0, 5>>)>>,
     <<Literal(1, 0, <<5>>), Literal(1, 1, <<>>), Literal(1, 2, <<>>),
       Literal(1, 60, <<>>)>>}

\* the command lines: --vary discount_rate with or without --range,
\* --vary project_lifetime_years with --range, and three other parameters
\* with their default ranges
SensitivityArgs ==
    {a \in [data : SensitivityData,
            param_name : {"discount_rate", "degradation_rate", "capex_usd",
                          "annual_generation_mwh", "project_lifetime_years"},
            custom_range : RangeStrings \cup LifetimeRangeStrings \cup {<<>>},
            all : {FALSE}] :
        \/ a.custom_range = <<>> /\ a.param_name # "project_lifetime_years"
        \/ a.custom_range \in RangeStrings /\ a.param_name = "discount_rate"
        \/ /\ a.custom_range \in LifetimeRangeStrings
           /\ a.param_name = "project_lifetime_years"}

\* the base mappings of --all: no discounting, with and without opex and
\* fuel, and a capex small enough for the LCOE of every lifetime of the
\* default range to round to the same cents
FullData ==
    {BaseProject(IntVal(Whole(2)), IntVal(Whole(1000)), 0, opex, fuel) :
        opex \in {IntVal(0), IntVal(Whole(1000))},
        fuel \in {Absent, IntVal(Whole(500))}}

\* the command lines with --all
FullArgs ==
    [data : FullData, param_name : {""}, custom_range : {<<>>}, all : {TRUE}]

\* main(): the input is read and validated (lines 270-292)
InitSensitivity ==
    /\ \E a \in SensitivityArgs \cup FullArgs :
         /\ sargs = [base_inputs |-> validate_input(a.data),
                     param_name |-> a.param_name,
                     custom_range |-> a.custom_range,
                     all |-> a.all]
         /\ spc = IF a.all THEN "start_all" ELSE "start"
    /\ full = NoFull
    /\ rloop = NoLoop
    /\ values = <<>>
    /\ run = NoRun
    /\ sensitivity = Nil
    /\ data = Nil
    /\ pc = "idle"
    /\ prev = Nil
    /\ Idle
    /\ CompareIdle

\* values = generate_range(base_value, args.vary, args.range): up to the
\* return of a list or to the entry of the while loop
GenerateRange ==
    /\ spc = "start"
    /\ LET r == GenerateRangeEntry(BaseValue(sargs.base_inputs, sargs.param_name),
                                   sargs.param_name, sargs.custom_range)
       IN  IF r.loop
           THEN /\ rloop' = [current |-> r.current, max_val |-> r.max_val,
                             step |-> r.step]
                /\ values' = <<>>
                /\ spc' = "range_loop"
           ELSE /\ values' = r.values
                /\ spc' = "have_values"
                /\ UNCHANGED rloop
    /\ UNCHANGED <<sargs, run, sensitivity, full, engineVars, compareVars>>

\* one iteration of the while loop
RangeLoopStep ==
    /\ spc = "range_loop"
    /\ RangeLoopTest(rloop)
    /\ Len(values) < MaxRangeValues
    /\ values' = Append(values, Round6(rloop.current))
    /\ rloop' = [rloop EXCEPT !.current = RAdd(rloop.current, rloop.step)]
    /\ UNCHANGED <<sargs, spc, run, sensitivity, full, engineVars, compareVars>>

\* the loop test fails: return values
RangeLoopExit ==
    /\ spc = "range_loop"
    /\ ~RangeLoopTest(rloop)
    /\ spc' = "have_values"
    /\ UNCHANGED <<sargs, rloop, values, run, sensitivity, full, engineVars, compareVars>>

\* run_sensitivity, lines 95-99: the base case
RunStart ==
    /\ spc = "have_values"
    /\ run' = [index |-> 0,
               results |-> <<>>,
               base_lcoe |-> calculate_lcoe(sargs.base_inputs).lcoe_usd_per_mwh,
               base_value |-> BaseValue(sargs.base_inputs, sargs.param_name),
               validator_passes |-> 0,
               engine_passes |-> 1]
    /\ spc' = "run_loop"
    /\ UNCHANGED <<sargs, rloop, values, sensitivity, full, engineVars, compareVars>>

\* one iteration of: for value in values
RunValue ==
    /\ spc = "run_loop"
    /\ run.index < Len(values)
    /\ LET value == values[run.index + 1]
           v == validate_input(Modified(sargs.base_inputs, sargs.param_name, value))
       IN  /\ Representable(sargs.param_name, value)
           /\ run' =
                IF IsError(v)
                THEN [run EXCEPT !.index = @ + 1, !.validator_passes = @ + 1]
                ELSE [run EXCEPT
                        !.index = @ + 1,
                        !.validator_passes = @ + 1,
                        !.engine_passes = @ + 1,
                        !.results = Append(@,
                            SensitivityPoint(value, run.base_value,
                                             calculate_lcoe(v).lcoe_usd_per_mwh,
                                             run.base_lcoe))]
    /\ UNCHANGED <<sargs, spc, rloop, values, sensitivity, full, engineVars, compareVars>>

\* lines 130-153: the elasticity and the returned mapping
RunFinish ==
    /\ spc = "run_loop"
    /\ run.index = Len(values)
    /\ sensitivity' = SensitivityBundle(sargs.param_name, run.base_value,
                                        run.base_lcoe, run.results)
    /\ spc' = "returned"
    /\ UNCHANGED <<sargs, rloop, values, run, full, engineVars, compareVars>>

\* run_full_sensitivity, lines 171-188: the parameters to analyze
FullStart ==
    /\ spc = "start_all"
    /\ full' = [params_to_analyze |-> ParamsToAnalyze(sargs.base_inputs),
                all_results |-> <<>>]
    /\ spc' = "next_param"
    /\ UNCHANGED <<sargs, rloop, values, run, sensitivity, engineVars, compareVars>>

\* for param in params_to_analyze, lines 189-192: the next parameter, which
\* is analyzed (generate_range, then run_sensitivity) or passed over
FullParam ==
    /\ spc = "next_param"
    /\ Len(full.all_results) < Len(full.params_to_analyze)
    /\ LET param == full.params_to_analyze[Len(full.all_results) + 1]
       IN  /\ IsAnalyzed(sargs.base_inputs, param)
           /\ sargs' = [sargs EXCEPT !.param_name = param]
    /\ spc' = "start"
    /\ UNCHANGED <<rloop, values, run, sensitivity, full, engineVars, compareVars>>

\* all_results[param] = run_sensitivity(...), line 193
FullCollect ==
    /\ spc = "returned"
    /\ sargs.all
    /\ full' = [full EXCEPT !.all_results = Append(@, sensitivity)]
    /\ spc' = "next_param"
    /\ rloop' = NoLoop
    /\ values' = <<>>
    /\ run' = NoRun
    /\ sensitivity' = Nil
    /\ UNCHANGED <<sargs, engineVars, compareVars>>

\* lines 195-212: the ranking and the returned mapping
FullFinish ==
    /\ spc = "next_param"
    /\ Len(full.all_results) = Len(full.params_to_analyze)
    /\ sensitivity' = FullReport(full.all_results)
    /\ spc' = "all_returned"
    /\ UNCHANGED <<sargs, rloop, values, run, full, engineVars, compareVars>>

NextSensitivity ==
    \/ GenerateRange
    \/ RangeLoopStep
    \/ RangeLoopExit
    \/ RunStart
    \/ RunValue
    \/ RunFinish
    \/ FullStart
    \/ FullParam
    \/ FullCollect
    \/ FullFinish

\* a sensitivity analysis, of one parameter or of all, for every command line
SpecSensitivity == InitSensitivity /\ [][NextSensitivity]_vars

(***************************************************************************)
(* Properties of validate_input                                            *)
(***************************************************************************)
\* validate_input has returned for the mapping in data
Returned == pc \in {"validated", "rejected"}

\* the checks in the documented order, each with the condition it rejects
CheckOrder ==
    <<"INVALID_CAPEX", "INVALID_GENERATION", "INVALID_LIFETIME",
      "INVALID_DISCOUNT_RATE", "INVALID_OPEX", "INVALID_FUEL_COST",
      "INVALID_OPEX_ESCALATION", "INVALID_FUEL_ESCALATION",
      "INVALID_DEGRADATION">>

CheckedField ==
    <<"capex_usd", "annual_generation_mwh", "project_lifetime_years",
      "discount_rate", "annual_opex_usd", "annual_fuel_cost_usd",
      "opex_escalation_rate", "fuel_escalation_rate", "degradation_rate">>

\* the supplied value x of the i-th checked field is acceptable
InRange(i, x) ==
    CASE i = 1 -> x[1] \in {"int", "float"} /\ x[2] > 0
      [] i = 2 -> x[1] \in {"int", "float"} /\ x[2] > 0
      [] i = 3 -> x[1] = "int" /\ x[2] >= 1 /\ x[2] <= 50
      [] i = 4 -> x[1] \in {"int", "float"} /\ x[2] >= 0 /\ x[2] <= 300
      [] i = 5 -> x[1] \in {"int", "float"} /\ x[2] >= 0
      [] i = 6 -> x[1] \in {"int", "float"} /\ x[2] >= 0
      [] i = 7 -> x[1] \in {"int", "float"} /\ x[2] >= 0 /\ x[2] <= 200
      [] i = 8 -> x[1] \in {"int", "float"} /\ x[2] >= 0 /\ x[2] <= 200
      [] i = 9 -> x[1] \in {"int", "float"} /\ x[2] >= 0 /\ x[2] <= 100

\* the i-th check fails on d: the field is supplied and not acceptable
Fails(d, i) == d[CheckedField[i]][1] # "absent" /\ ~InRange(i, d[CheckedField[i]])

AbsentRequired(d) == {i \in 1..4 : d[CheckedField[i]][1] = "absent"}

FailingChecks(d) == {i \in 1..9 : Fails(d, i)}

Least(S) == CHOOSE i \in S : \A j \in S : i <= j

\* C1: validate_input returns the first violation in a fixed order and only
\* that one: if a required field is absent, MISSING_REQUIRED_FIELD naming the
\* first absent one of capex_usd, annual_generation_mwh,
\* project_lifetime_years, discount_rate (whatever else is wrong); otherwise
\* the code of the first failing check in the order of CheckOrder; and a
\* success exactly when nothing is absent or failing.
C1_FirstViolation ==
    Returned =>
        IF AbsentRequired(data) # {}
        THEN /\ IsError(validated)
             /\ validated.code = "MISSING_REQUIRED_FIELD"
             /\ validated.field = CheckedField[Least(AbsentRequired(data))]
        ELSE IF FailingChecks(data) # {}
        THEN /\ IsError(validated)
             /\ validated.code = CheckOrder[Least(FailingChecks(data))]
             /\ validated.field = CheckedField[Least(FailingChecks(data))]
        ELSE ~IsError(validated)

\* two required fields are absent and a supplied one is out of range, and
\* the first absent field is reported
C1_Witness ==
    /\ pc = "rejected"
    /\ Cardinality(AbsentRequired(data)) = 2
    /\ ~Has(data, "discount_rate")
    /\ Fails(data, 1)
    /\ Cardinality(FailingChecks(data)) >= 3
    /\ validated.code = "MISSING_REQUIRED_FIELD"
    /\ validated.field = "annual_generation_mwh"

ValidatedFields ==
    {"capex_usd", "annual_generation_mwh", "project_lifetime_years",
     "discount_rate", "annual_opex_usd", "annual_fuel_cost_usd",
     "opex_escalation_rate", "fuel_escalation_rate", "degradation_rate",
     "capacity_mw", "technology"}

\* the value the validated set must hold for the i-th checked field
Expected(d, i, default) ==
    IF d[CheckedField[i]][1] = "absent" THEN default ELSE d[CheckedField[i]][2]

\* C2: a mapping with the four required fields in range and every supplied
\* optional field in range validates to a parameter set with all eleven
\* fields; an absent optional field takes its default (opex 0, fuel 0, both
\* escalation rates 0.02, degradation 0.005, technology "generic") and a
\* supplied value is echoed.
C2_DefaultsAndEcho ==
    (Returned /\ AbsentRequired(data) = {} /\ FailingChecks(data) = {}) =>
        /\ ~IsError(validated)
        /\ DOMAIN validated = ValidatedFields
        /\ validated.capex_usd = data.capex_usd[2]
        /\ validated.annual_generation_mwh = data.annual_generation_mwh[2]
        /\ validated.project_lifetime_years = data.project_lifetime_years[2]
        /\ validated.discount_rate = data.discount_rate[2]
        /\ validated.annual_opex_usd = Expected(data, 5, 0)
        /\ validated.annual_fuel_cost_usd = Expected(data, 6, 0)
        /\ validated.opex_escalation_rate = Expected(data, 7, 20)
        /\ validated.fuel_escalation_rate = Expected(data, 8, 20)
        /\ validated.degradation_rate = Expected(data, 9, 5)
        /\ validated.technology =
              (IF data.technology[1] = "absent" THEN "generic" ELSE data.technology[2])
        /\ validated.capacity_mw =
              (IF data.capacity_mw[1] = "absent" THEN NoneVal ELSE data.capacity_mw)

\* a minimal mapping with one optional rate supplied: the others defaulted
C2_Witness ==
    /\ pc = "validated"
    /\ ~Has(data, "annual_opex_usd")
    /\ ~Has(data, "opex_escalation_rate")
    /\ ~Has(data, "degradation_rate")
    /\ data.technology[1] = "absent"
    /\ data.fuel_escalation_rate = IntVal(0)
    /\ validated.opex_escalation_rate = 20
    /\ validated.fuel_escalation_rate = 0
    /\ validated.degradation_rate = 5
    /\ validated.technology = "generic"

\* C3: in every validated parameter set capacity_mw is absent (None) or a
\* positive number.
C3_CapacityPositiveOrAbsent ==
    pc = "validated" =>
        \/ validated.capacity_mw = NoneVal
        \/ /\ validated.capacity_mw[1] \in {"int", "float"}
           /\ validated.capacity_mw[2] > 0

(***************************************************************************)
(* Properties of calculate_lcoe                                            *)
(***************************************************************************)
\* calculate_lcoe has returned
Done == pc = "done"

\* calculate_lcoe has returned for a parameter set that validate_input made
DoneValidated == pc = "done" /\ via = "validator"

\* 1 + r, 1 - r for a rate held in thousandths
OnePlus(r) == Rat(1000 + r, 1000)

OneMinus(r) == Rat(1000 - r, 1000)

\* capex + sum over t = 1..n of (opex_t + fuel_t) / (1 + r)^t
RECURSIVE NpvCosts(_, _)
NpvCosts(inp, n) ==
    IF n = 0 THEN Amount(inp.capex_usd)
    ELSE RAdd(NpvCosts(inp, n - 1),
              RDiv(RAdd(RMul(Amount(inp.annual_opex_usd),
                             RPow(OnePlus(inp.opex_escalation_rate), n - 1)),
                        RMul(Amount(inp.annual_fuel_cost_usd),
                             RPow(OnePlus(inp.fuel_escalation_rate), n - 1))),
                   RPow(OnePlus(inp.discount_rate), n)))

\* sum over t = 1..n of generation * (1 - degradation)^(t-1) / (1 + r)^t
RECURSIVE NpvGeneration(_, _)
NpvGeneration(inp, n) ==
    IF n = 0 THEN RInt(0)
    ELSE RAdd(NpvGeneration(inp, n - 1),
              RDiv(RMul(Amount(inp.annual_generation_mwh),
                        RPow(OneMinus(inp.degradation_rate), n - 1)),
                   RPow(OnePlus(inp.discount_rate), n)))

\* C4: the LCOE returned is NPV(costs) / NPV(generation), with NPV(costs) =
\* capex + sum of (opex_t + fuel_t) / (1+r)^t and NPV(generation) = sum of
\* generation_t / (1+r)^t over t = 1..lifetime, reported to 2 decimals; it is
\* 0, with no division, when NPV(generation) is 0.
C4_LcoeIsNpvRatio ==
    Done =>
        LET c == NpvCosts(inputs, inputs.project_lifetime_years)
            g == NpvGeneration(inputs, inputs.project_lifetime_years)
        IN  /\ acc.npv_costs = c
            /\ acc.npv_generation = g
            /\ result.npv_costs_usd = RRound(c, 2)
            /\ result.npv_generation_mwh = RRound(g, 2)
            /\ RIsZero(g) => LcoePerMwh(acc) = RInt(0) /\ result.lcoe_usd_per_mwh = 0
            /\ ~RIsZero(g) => /\ LcoePerMwh(acc) = RDiv(c, g)
                              /\ result.lcoe_usd_per_mwh = RRound(RDiv(c, g), 2)

\* a validated run over several years with opex, fuel, escalation,
\* degradation and discounting all at work
C4_Witness ==
    /\ DoneValidated
    /\ inputs.project_lifetime_years >= 3
    /\ inputs.annual_opex_usd > 0
    /\ inputs.annual_fuel_cost_usd > 0
    /\ inputs.opex_escalation_rate > 0
    /\ inputs.fuel_escalation_rate = 0
    /\ inputs.degradation_rate > 0
    /\ inputs.discount_rate > 0
    /\ result.lcoe_usd_per_mwh > 0
    /\ RLess(acc.npv_costs, acc.total_lifecycle_cost)

\* discount rate, degradation, both escalation rates, opex and fuel all zero
AllZero(inp) ==
    /\ inp.discount_rate = 0
    /\ inp.degradation_rate = 0
    /\ inp.opex_escalation_rate = 0
    /\ inp.fuel_escalation_rate = 0
    /\ inp.annual_opex_usd = 0
    /\ inp.annual_fuel_cost_usd = 0

\* capex / (annual generation * lifetime)
SimpleLcoe(inp) ==
    Rat(inp.capex_usd, inp.annual_generation_mwh * inp.project_lifetime_years)

\* C5 as stated: with everything zero, lcoe_usd_per_mwh is exactly
\* capex / (annual generation * lifetime).
C5_ExactlySimpleLcoe ==
    (DoneValidated /\ AllZero(inputs)) =>
        Rat(result.lcoe_usd_per_mwh, 100) = SimpleLcoe(inputs)

\* C5 amended: with everything zero, the LCOE is capex / (annual generation *
\* lifetime) and lcoe_usd_per_mwh is that value rounded to 2 decimals.
C5_SimpleLcoeRounded ==
    (DoneValidated /\ AllZero(inputs)) =>
        /\ LcoePerMwh(acc) = SimpleLcoe(inputs)
        /\ result.lcoe_usd_per_mwh = RRound(SimpleLcoe(inputs), 2)

\* 1000 / (3 * 2) = 166.666..., reported as 166.67
C5_Witness ==
    /\ DoneValidated
    /\ AllZero(inputs)
    /\ inputs.capex_usd = Whole(1000)
    /\ inputs.annual_generation_mwh = Whole(3)
    /\ inputs.project_lifetime_years = 2
    /\ result.lcoe_usd_per_mwh = 16667

\* a finished run is kept from the call before
HasPrev == "result" \in DOMAIN prev

\* the parameter sets p and q differ in field f and in nothing else
DifferOnlyIn(p, q, f) ==
    /\ p[f] # q[f]
    /\ \A k \in DOMAIN p \ {f} : p[k] = q[k]

\* this run and the one before are validated runs differing only in field f
PairOn(f) ==
    /\ DoneValidated
    /\ HasPrev
    /\ prev.via = "validator"
    /\ DifferOnlyIn(inputs, prev.inputs, f)

\* C6 as stated: of two validated parameter sets differing only in
\* discount_rate, the one with the higher rate has the strictly higher
\* lcoe_usd_per_mwh.
C6_HigherRateHigherLcoe ==
    PairOn("discount_rate") =>
        /\ inputs.discount_rate > prev.inputs.discount_rate
              => result.lcoe_usd_per_mwh > prev.result.lcoe_usd_per_mwh
        /\ inputs.discount_rate < prev.inputs.discount_rate
              => result.lcoe_usd_per_mwh < prev.result.lcoe_usd_per_mwh

\* the LCOE itself falls when the discount rate rises: opex escalating over
\* two years on a small capex (36.83 at rate 0, 36.48 at rate 0.30)
C6_LcoeFalls ==
    /\ PairOn("discount_rate")
    /\ inputs.annual_opex_usd > 0
    /\ inputs.opex_escalation_rate > 0
    /\ inputs.discount_rate > prev.inputs.discount_rate
    /\ RLess(LcoePerMwh(acc), LcoePerMwh(prev.acc))
    /\ result.lcoe_usd_per_mwh < prev.result.lcoe_usd_per_mwh

\* NPV(generation) is 0 and the LCOE returned is 0
C4_ZeroGuardReached ==
    /\ Done
    /\ RIsZero(acc.npv_generation)
    /\ inputs.capex_usd > 0
    /\ result.lcoe_usd_per_mwh = 0

\* the cost per MWh is the same in every year: one year only, or each cost
\* is zero or neither escalates nor is spread over a degrading generation
FlatCostPerMwh(inp) ==
    \/ inp.project_lifetime_years = 1
    \/ /\ inp.annual_opex_usd = 0
          \/ (inp.opex_escalation_rate = 0 /\ inp.degradation_rate = 0)
       /\ inp.annual_fuel_cost_usd = 0
          \/ (inp.fuel_escalation_rate = 0 /\ inp.degradation_rate = 0)

\* C6 amended: when the cost per MWh is the same in every year, the higher
\* discount rate gives the strictly higher LCOE, and an lcoe_usd_per_mwh
\* (rounded to 2 decimals) that is not lower.
C6_HigherRateHigherLcoeFlat ==
    (PairOn("discount_rate") /\ FlatCostPerMwh(inputs)) =>
        /\ inputs.discount_rate > prev.inputs.discount_rate
              => /\ RLess(LcoePerMwh(prev.acc), LcoePerMwh(acc))
                 /\ result.lcoe_usd_per_mwh >= prev.result.lcoe_usd_per_mwh
        /\ inputs.discount_rate < prev.inputs.discount_rate
              => /\ RLess(LcoePerMwh(acc), LcoePerMwh(prev.acc))
                 /\ result.lcoe_usd_per_mwh <= prev.result.lcoe_usd_per_mwh

\* a flat opex over three years, rerun at a higher discount rate
C6_Witness ==
    /\ PairOn("discount_rate")
    /\ FlatCostPerMwh(inputs)
    /\ inputs.project_lifetime_years >= 3
    /\ inputs.annual_opex_usd > 0
    /\ inputs.discount_rate > prev.inputs.discount_rate
    /\ result.lcoe_usd_per_mwh > prev.result.lcoe_usd_per_mwh

\* C7 as stated: of two validated parameter sets differing only in
\* degradation_rate, the one with the higher rate has the strictly higher
\* lcoe_usd_per_mwh, for every lifetime, lifetime 1 included.
C7_HigherDegradationHigherLcoe ==
    PairOn("degradation_rate") =>
        /\ inputs.degradation_rate > prev.inputs.degradation_rate
              => result.lcoe_usd_per_mwh > prev.result.lcoe_usd_per_mwh
        /\ inputs.degradation_rate < prev.inputs.degradation_rate
              => result.lcoe_usd_per_mwh < prev.result.lcoe_usd_per_mwh

\* C7 amended: for a lifetime of 2 years or more the higher degradation rate
\* gives the strictly higher LCOE and an lcoe_usd_per_mwh (rounded to 2
\* decimals) that is not lower; for a lifetime of 1 year the degradation rate
\* changes nothing of the LCOE.
C7_HigherDegradationFromYearTwo ==
    PairOn("degradation_rate") =>
        LET hi == IF inputs.degradation_rate > prev.inputs.degradation_rate
                  THEN [a |-> acc, r |-> result]
                  ELSE [a |-> prev.acc, r |-> prev.result]
            lo == IF inputs.degradation_rate > prev.inputs.degradation_rate
                  THEN [a |-> prev.acc, r |-> prev.result]
                  ELSE [a |-> acc, r |-> result]
        IN  IF inputs.project_lifetime_years >= 2
            THEN /\ RLess(LcoePerMwh(lo.a), LcoePerMwh(hi.a))
                 /\ hi.r.lcoe_usd_per_mwh >= lo.r.lcoe_usd_per_mwh
            ELSE /\ LcoePerMwh(lo.a) = LcoePerMwh(hi.a)
                 /\ hi.r.lcoe_usd_per_mwh = lo.r.lcoe_usd_per_mwh

\* two years, rerun with degradation: the reported LCOE rises
C7_Witness ==
    /\ PairOn("degradation_rate")
    /\ inputs.project_lifetime_years = 2
    /\ inputs.degradation_rate > prev.inputs.degradation_rate
    /\ result.lcoe_usd_per_mwh > prev.result.lcoe_usd_per_mwh

\* C8: annual_breakdown has exactly project_lifetime_years entries and their
\* year fields are 1, 2, ..., lifetime in that order.
C8_BreakdownYears ==
    Done =>
        /\ Len(result.annual_breakdown) = inputs.project_lifetime_years
        /\ \A i \in 1..Len(result.annual_breakdown) :
              result.annual_breakdown[i].year = i

C8_Witness ==
    /\ DoneValidated
    /\ inputs.project_lifetime_years = 3
    /\ Len(result.annual_breakdown) = 3
    /\ result.annual_breakdown[3].year = 3

\* C9: the three denominations agree within their rounding: with M the
\* per-MWh value in 0.01 units, K the per-kWh value in 0.00001 units and C the
\* cents-per-kWh value in 0.01 units, |K/100000 - (M/100)/1000| <= 0.00001
\* (half a unit of each side) and |C/100 - (K/100000)*100| <= 0.0055.
C9_DenominationsAgree ==
    Done =>
        LET M == result.lcoe_usd_per_mwh
            K == result.lcoe_usd_per_kwh
            C == result.lcoe_cents_per_kwh
        IN  /\ Abs(K - M) <= 1
            /\ 2 * Abs(10 * C - K) <= 11

\* 42.28 USD/MWh, 0.04228 USD/kWh, 4.23 cents/kWh: the cents are rounded
C9_Witness ==
    /\ DoneValidated
    /\ result.lcoe_usd_per_mwh > 0
    /\ result.lcoe_usd_per_kwh = result.lcoe_usd_per_mwh
    /\ 10 * result.lcoe_cents_per_kwh # result.lcoe_usd_per_kwh

\* capacity_mw is supplied and > 0
CapacitySupplied(inp) == inp.capacity_mw[1] \in {"int", "float"} /\ inp.capacity_mw[2] > 0

\* (annual generation / (capacity * 8760)) * 100
ExpectedCapacityFactor(inp) ==
    Rat(inp.annual_generation_mwh * 100, Whole(inp.capacity_mw[2] * 8760))

\* C10 as stated: capacity_factor is the formula rounded to 1 decimal exactly
\* when capacity_mw is supplied and > 0, absent otherwise, and a reported
\* capacity factor is never 0.
C10_NeverZero ==
    DoneValidated =>
        /\ CapacitySupplied(inputs) <=> result.capacity_factor # NoneVal
        /\ CapacitySupplied(inputs) =>
              result.capacity_factor = <<"float", RRound(ExpectedCapacityFactor(inputs), 1)>>
        /\ result.capacity_factor # NoneVal => result.capacity_factor[2] # 0

\* C10 amended: capacity_factor is the formula rounded to 1 decimal exactly
\* when capacity_mw is supplied and > 0, absent otherwise; the value reported
\* is 0.0 whenever the percentage is below 0.05 (only a percentage that is 0
\* before rounding is dropped, which takes a generation of 0).
C10_RoundedAfterTest ==
    Done =>
        /\ (CapacitySupplied(inputs) /\ inputs.annual_generation_mwh # 0)
              <=> result.capacity_factor # NoneVal
        /\ result.capacity_factor # NoneVal =>
              result.capacity_factor = <<"float", RRound(ExpectedCapacityFactor(inputs), 1)>>
        /\ DoneValidated => (CapacitySupplied(inputs) <=> result.capacity_factor # NoneVal)

\* 3 MWh on 1 MW is 0.034 %, reported as 0.0
C10_Witness ==
    /\ DoneValidated
    /\ inputs.capacity_mw = IntVal(1)
    /\ inputs.annual_generation_mwh = Whole(3)
    /\ result.capacity_factor = <<"float", 0>>

CompareFinished == cpc \in {"returned", "raised"}

\* compare_projects has returned a successful comparison
CompareSucceeded == cpc = "returned" /\ comparison.success

\* compare_projects has returned the top-level failure
CompareFailed == cpc = "returned" /\ ~comparison.success

\* the label of an input project, as a result entry must carry it
LabelOf(p) == IF p["_source"][1] = "absent" THEN "unknown" ELSE p["_source"][2]

\* the input project validates
Validates(p) == ~IsError(validate_input(p))

ValidPositions == {i \in 1..Len(projects) : Validates(projects[i])}

\* a ranked entry without the fields that ranking adds
EntryOf(e) ==
    [f \in DOMAIN e \ {"rank", "lcoe_vs_best_pct", "lcoe_vs_avg_pct"} |-> e[f]]

\* the ranks by LCOE in a comparison: the set of <<LCOE, source, rank>>
RanksOf(c) ==
    {<<c.rankings[k].lcoe_usd_per_mwh, c.rankings[k].source, c.rankings[k].rank>> :
        k \in 1..Len(c.rankings)}

\* C12: in a successful result, rankings holds every successfully analyzed
\* project exactly once (entry k is the analysis of input pos[k], for a
\* one-to-one pos onto the validating inputs), in ascending LCOE order, with
\* rank k at place k, entries of equal LCOE in input order; and when the
\* LCOEs are pairwise distinct, comparing any permutation of the input gives
\* every project the same rank.
C12_Ranking ==
    CompareSucceeded =>
        LET rankings == comparison.rankings
            n == Len(rankings)
            succ == ValidPositions
        IN  /\ \E pos \in [1..n -> succ] :
                /\ {pos[k] : k \in 1..n} = succ
                /\ \A k, l \in 1..n : k # l => pos[k] # pos[l]
                /\ \A k \in 1..n :
                    /\ EntryOf(rankings[k]) = analyzed[pos[k]]
                    /\ rankings[k].rank = k
                /\ \A k, l \in 1..n : k < l =>
                    /\ rankings[k].lcoe_usd_per_mwh <= rankings[l].lcoe_usd_per_mwh
                    /\ rankings[k].lcoe_usd_per_mwh = rankings[l].lcoe_usd_per_mwh
                          => pos[k] < pos[l]
            /\ (\A k, l \in 1..n : k # l =>
                    rankings[k].lcoe_usd_per_mwh # rankings[l].lcoe_usd_per_mwh)
               => \A q \in Permutations(1..Len(projects)) :
                    LET again == compare_projects(
                                    [i \in 1..Len(projects) |-> projects[q[i]]])
                    IN  /\ ~DidRaise(again)
                        /\ again.value.success
                        /\ RanksOf(again.value) = RanksOf(comparison)

\* LCOEs 70, 55 and 40 given in that order are ranked 40, 55, 70
C12_Witness ==
    /\ CompareSucceeded
    /\ Len(projects) = 3
    /\ LabelOf(projects[1]) = "c.json"
    /\ LabelOf(projects[2]) = "b.json"
    /\ LabelOf(projects[3]) = "a.json"
    /\ [k \in 1..3 |-> comparison.rankings[k].source] = <<"a.json", "b.json", "c.json">>
    /\ [k \in 1..3 |-> comparison.rankings[k].lcoe_usd_per_mwh] = <<4000, 5500, 7000>>
    /\ [k \in 1..3 |-> comparison.rankings[k].rank] = <<1, 2, 3>>

\* two projects of LCOE 40 given as d.json, a.json keep that order
C12_TieReached ==
    /\ CompareSucceeded
    /\ Len(projects) = 3
    /\ LabelOf(projects[1]) = "c.json"
    /\ LabelOf(projects[2]) = "d.json"
    /\ LabelOf(projects[3]) = "a.json"
    /\ [k \in 1..3 |-> comparison.rankings[k].source] = <<"d.json", "a.json", "c.json">>

\* the ranking has been computed (compare_projects is past line 146)
RankingComputed == cpc \in {"ranked", "summarized", "recommended", "raised", "returned"}
                   /\ locals.ranked # <<>>

\* (x - base) / base * 100 rounded to 1 decimal (tenths), 0 for base 0
ExpectedPct(x, base) ==
    IF base = 0 THEN 0
    ELSE RRound(Rat(100 * (x - base), base), 1)

\* the sum of the LCOEs (hundredths) of the validating inputs
RECURSIVE SumOfSuccesses(_)
SumOfSuccesses(i) ==
    IF i = 0 THEN 0
    ELSE SumOfSuccesses(i - 1)
         + (IF analyzed[i].success THEN analyzed[i].lcoe_usd_per_mwh ELSE 0)

\* C13: every ranked project has lcoe_vs_best_pct = (its LCOE - rank-1 LCOE)
\* / rank-1 LCOE * 100 rounded to 1 decimal, or 0 when the rank-1 LCOE is 0,
\* and lcoe_vs_avg_pct the same against the mean LCOE of all successes, or 0
\* when the mean is 0; the rank-1 project has lcoe_vs_best_pct 0 and no
\* lcoe_vs_best_pct is negative.
C13_Deltas ==
    RankingComputed =>
        LET ranked == locals.ranked
            n == Len(ranked)
            best == ranked[1].lcoe_usd_per_mwh
            total == SumOfSuccesses(Len(analyzed))
        IN  /\ \A k \in 1..n :
                /\ ranked[k].lcoe_vs_best_pct =
                      ExpectedPct(ranked[k].lcoe_usd_per_mwh, best)
                /\ ranked[k].lcoe_vs_avg_pct =
                      (IF total = 0 THEN 0
                       ELSE RRound(Rat(100 * (n * ranked[k].lcoe_usd_per_mwh - total),
                                       total), 1))
                /\ ranked[k].lcoe_vs_best_pct >= 0
            /\ ranked[1].lcoe_vs_best_pct = 0
            /\ cpc = "returned" => comparison.rankings = ranked

\* LCOEs 40 and 70: the second project is 75.0 % above the best and
\* 27.3 % above the mean 55
C13_Witness ==
    /\ CompareSucceeded
    /\ Len(comparison.rankings) = 2
    /\ comparison.rankings[1].lcoe_usd_per_mwh = 4000
    /\ comparison.rankings[2].lcoe_usd_per_mwh = 7000
    /\ comparison.rankings[2].lcoe_vs_best_pct = 750
    /\ comparison.rankings[2].lcoe_vs_avg_pct = 273
    /\ comparison.rankings[1].lcoe_vs_avg_pct = -273

\* the rank-1 LCOE is 0.00 and another project's is not: its delta is 0
C13_ZeroBestReached ==
    /\ CompareSucceeded
    /\ comparison.rankings[1].lcoe_usd_per_mwh = 0
    /\ comparison.rankings[2].lcoe_usd_per_mwh = 4000
    /\ comparison.rankings[2].lcoe_vs_best_pct = 0

\* every success has LCOE 0.00, so that the mean is 0
C13_ZeroMeanReached ==
    /\ RankingComputed
    /\ Len(locals.ranked) = 2
    /\ locals.ranked[2].lcoe_usd_per_mwh = 0
    /\ locals.ranked[2].lcoe_vs_avg_pct = 0

\* C14: compare_projects returns the top-level failure NO_VALID_PROJECTS if
\* and only if no input project validates (the empty list included), and the
\* failure carries in failed_projects one entry per input project, in input
\* order, each with its validation error code.
C14_NoValidProjects ==
    CompareFinished =>
        /\ CompareFailed <=> ValidPositions = {}
        /\ CompareFailed =>
            /\ comparison.error.code = "NO_VALID_PROJECTS"
            /\ ~comparison.failed_projects.none
            /\ Len(comparison.failed_projects.items) = Len(projects)
            /\ \A i \in 1..Len(projects) :
                LET e == comparison.failed_projects.items[i]
                IN  /\ ~e.success
                    /\ e.source = LabelOf(projects[i])
                    /\ e.error.code = validate_input(projects[i]).code
                    /\ e.error.field = validate_input(projects[i]).field

\* two projects that fail for different reasons, then one that fails like
\* the first: the failure lists the three in input order
C14_Witness ==
    /\ CompareFailed
    /\ Len(projects) = 3
    /\ [i \in 1..3 |-> comparison.failed_projects.items[i].error.code]
          = <<"INVALID_CAPEX", "MISSING_REQUIRED_FIELD", "INVALID_CAPEX">>
    /\ [i \in 1..3 |-> comparison.failed_projects.items[i].source]
          = <<"f.json", "unknown", "f.json">>

\* the empty list of projects gives the failure with no entries
C14_EmptyReached ==
    /\ CompareFailed
    /\ projects = <<>>
    /\ comparison.failed_projects.items = <<>>

\* the input projects that validate, in input order
ValidProjects == SelectSeq(projects, Validates)

\* C15: when at least one input project validates, compare_projects succeeds
\* and partitions the inputs: rankings has one entry per validating project
\* and failed_projects one entry, with its error code, per failing project in
\* input order, total_projects = analyzed_successfully + failed_to_analyze,
\* and the rankings are those of the validating projects compared alone.
C15_SucceedsAndPartitions ==
    (CompareFinished /\ ValidPositions # {}) =>
        /\ CompareSucceeded
        /\ LET failing == {i \in 1..Len(projects) : ~Validates(projects[i])}
               failed_ == comparison.failed_projects
               summary == comparison.summary
           IN  /\ Len(comparison.rankings) = Cardinality(ValidPositions)
               /\ failed_.none <=> failing = {}
               /\ Len(failed_.items) = Cardinality(failing)
               /\ failed_.items = SelectSeq(analyzed, LAMBDA a : ~a.success)
               /\ \A k \in 1..Len(failed_.items) :
                    \E i \in failing :
                        /\ failed_.items[k].source = LabelOf(projects[i])
                        /\ failed_.items[k].error.code = validate_input(projects[i]).code
               /\ summary.total_projects = Len(projects)
               /\ summary.analyzed_successfully = Len(comparison.rankings)
               /\ summary.failed_to_analyze = Len(failed_.items)
               /\ summary.total_projects
                    = summary.analyzed_successfully + summary.failed_to_analyze
               /\ LET alone == compare_projects(ValidProjects)
                  IN  /\ ~DidRaise(alone)
                      /\ alone.value.rankings = comparison.rankings

\* C16: compare_projects never raises on a list of project mappings of the
\* documented types: no division by a zero LCOE leaves it.
C16_NeverRaises == cpc # "raised"

\* the unguarded divisions: by the worst-ranked LCOE (line 221) and by the
\* cheapest technology group's mean (line 239)
C16_WorstZeroReached ==
    /\ cpc = "raised"
    /\ comparison.exception = "ZeroDivisionError"
    /\ comparison.line = 221

C16_CheapestGroupZeroReached ==
    /\ cpc = "raised"
    /\ comparison.exception = "ZeroDivisionError"
    /\ comparison.line = 239

\* the recommendations of one type
OfType(recs, t) == {k \in 1..Len(recs) : recs[k].type = t}

\* C17: in every successful result the recommendations are non-empty; exactly
\* one is of type INVESTMENT, it is the first, has priority HIGH and names
\* the source and technology of the rank-1 project; there is at most one
\* PORTFOLIO and at most one REVIEW recommendation, and a PORTFOLIO one comes
\* before a REVIEW one.
C17_Recommendations ==
    CompareSucceeded =>
        LET recs == comparison.recommendations
            best == comparison.rankings[1]
        IN  /\ recs # <<>>
            /\ OfType(recs, "INVESTMENT") = {1}
            /\ recs[1].priority = "HIGH"
            /\ {k \in 1..Len(recs) : recs[k].priority = "HIGH"} = {1}
            /\ recs[1].source = best.source
            /\ recs[1].technology = best.technology
            /\ recs[1].lcoe_usd_per_mwh = best.lcoe_usd_per_mwh
            /\ Cardinality(OfType(recs, "PORTFOLIO")) <= 1
            /\ Cardinality(OfType(recs, "REVIEW")) <= 1
            /\ \A k \in OfType(recs, "PORTFOLIO") :
                 \A l \in OfType(recs, "REVIEW") : k < l
            /\ \A k \in 1..Len(recs) :
                 recs[k].type \in {"INVESTMENT", "PORTFOLIO", "REVIEW"}

\* a result with all three recommendations
C17_Witness ==
    /\ CompareSucceeded
    /\ Len(comparison.recommendations) = 3
    /\ comparison.recommendations[1].type = "INVESTMENT"
    /\ comparison.recommendations[1].source = comparison.rankings[1].source
    /\ comparison.recommendations[2].type = "PORTFOLIO"
    /\ comparison.recommendations[3].type = "REVIEW"

\* how often the label s occurs in a sequence of labels
Occurrences(labels, s) == Cardinality({k \in 1..Len(labels) : labels[k] = s})

\* the labels of the entries of a returned result, ranked and failed
ResultLabels ==
    IF comparison.success
    THEN [k \in 1..Len(comparison.rankings) |-> comparison.rankings[k].source]
         \o [k \in 1..Len(comparison.failed_projects.items) |->
                comparison.failed_projects.items[k].source]
    ELSE [k \in 1..Len(comparison.failed_projects.items) |->
                comparison.failed_projects.items[k].source]

\* C18: compare_projects strips _source from a copy of each project before
\* validation and restores it as the source of the project's result entry:
\* no mapping passed to validate_input has the key, the analysis of input i
\* (successful or failed) carries the label of input i ('unknown' when it has
\* none) and validated the fields of input i, the returned entries carry
\* exactly the labels of the inputs, and no step changes the caller's list of
\* mappings.
C18_SourceStripped ==
    /\ [](/\ Len(passed) = Len(analyzed)
          /\ \A i \in 1..Len(passed) :
                /\ passed[i]["_source"][1] = "absent"
                /\ \A f \in DOMAIN passed[i] \ {"_source"} :
                      passed[i][f] = projects[i][f]
                /\ analyzed[i].source = LabelOf(projects[i])
          /\ cpc = "returned" =>
                \A i \in 1..Len(projects) :
                    Occurrences(ResultLabels, LabelOf(projects[i]))
                      = Occurrences([j \in 1..Len(projects) |-> LabelOf(projects[j])],
                                    LabelOf(projects[i])))
    /\ [][projects' = projects]_vars

\* a labelled project, a labelled one that fails and an unlabelled one have
\* been compared, and the caller's mappings still carry their labels
C18_Witness ==
    /\ CompareSucceeded
    /\ Len(projects) = 3
    /\ projects[1]["_source"] = Label("f.json")
    /\ projects[2]["_source"] = NoLabel
    /\ projects[3]["_source"] = Label("a.json")
    /\ Validates(projects[2])
    /\ passed[3]["_source"] = NoLabel
    /\ [k \in 1..2 |-> comparison.rankings[k].source] = <<"a.json", "unknown">>
    /\ comparison.failed_projects.items[1].source = "f.json"

(***************************************************************************)
(* Properties of generate_range and run_sensitivity                        *)
(***************************************************************************)
\* generate_range has returned
RangeReturned == spc \in {"have_values", "run_loop", "returned"}

\* the number a decimal literal denotes
NumberOf(x) ==
    RAdd(RInt(x.sign * x.whole),
         Rat(x.sign * DigitsValue(x.frac), Pow10(Len(x.frac))))

\* the --range string "0.05,0.08,0.10"
ThreeLiteralValues ==
    <<Literal(1, 0, <<0, 5>>), Literal(1, 0, <<0, 8>>), Literal(1, 0, <<1, 0>>)>>

\* C19: generate_range with an explicit comma-separated list of numbers
\* returns exactly those numbers, in the given order and count, for a list of
\* any length other than three, and also for the three literal values
\* "0.05,0.08,0.10".
C19_LiteralListVerbatim ==
    (/\ RangeReturned
     /\ sargs.custom_range # <<>>
     /\ (Len(sargs.custom_range) # 3 \/ sargs.custom_range = ThreeLiteralValues))
    => values = [i \in 1..Len(sargs.custom_range) |-> NumberOf(sargs.custom_range[i])]

\* "0.05,0.08,0.10" is read as min 0.05, max 0.08, step 0.10
C19_ThreeValuesReadAsTriple ==
    /\ RangeReturned
    /\ sargs.custom_range = ThreeLiteralValues
    /\ values = <<Rat(5, 100)>>

\* lists of one, two and four values are returned as they are
C19_OtherLengthsReached ==
    /\ RangeReturned
    /\ Len(sargs.custom_range) = 4
    /\ values = <<Rat(5, 100), Rat(8, 100), Rat(10, 100), Rat(12, 100)>>

\* C20: every sensitivity operation terminates after a bounded number of
\* steps: each iteration of the while loop of generate_range moves current
\* strictly towards the bound that ends the loop (for every min,max,step
\* triple, step = 0 and step < 0 included), and when run_sensitivity returns
\* it has made one validator pass per generated value and one engine pass per
\* value that validated, besides the pass for the base case.
C20_Terminates ==
    /\ [][(spc = "range_loop" /\ values' # values)
            => RLess(rloop.current, rloop'.current)]_vars
    /\ [](spc = "returned" =>
            /\ run.index = Len(values)
            /\ run.validator_passes = Len(values)
            /\ run.engine_passes = 1 + Len(run.results)
            /\ Len(run.results) <= Len(values))

\* with step 0 the loop has appended MaxRangeValues copies of min and its
\* test still holds
C20_StepZeroReached ==
    /\ spc = "range_loop"
    /\ RIsZero(rloop.step)
    /\ Len(values) = MaxRangeValues
    /\ \A i \in 1..Len(values) : values[i] = rloop.current
    /\ RangeLoopTest(rloop)

\* with a negative step current moves away from max
C20_NegativeStepReached ==
    /\ spc = "range_loop"
    /\ rloop.step.n < 0
    /\ Len(values) = MaxRangeValues
    /\ rloop.current.n < 0
    /\ RangeLoopTest(rloop)

\* the --range string is a min,max,step triple with step > 0 and min <= max
AscendingTriple(custom_range) ==
    /\ Len(custom_range) = 3
    /\ RLess(RInt(0), NumberOf(custom_range[3]))
    /\ RLeq(NumberOf(custom_range[1]), NumberOf(custom_range[2]))

\* the number of terms min + k * step that are at most max + 0.0001
TermCount(lo, hi, step) ==
    RFloor(RDiv(RSub(RAdd(hi, Rat(1, 10000)), lo), step)) + 1

\* the term of index i (from 1) of the sequence, rounded to 6 decimals
RoundedTerm(lo, step, i) ==
    LET t == RAdd(lo, RMul(RInt(i - 1), step))
    IN  Rat(RRound(t, 6), 1000000)

\* the --range string "0.04,0.14,0.02"
SixPointTriple ==
    <<Literal(1, 0, <<0, 4>>), Literal(1, 0, <<1, 4>>), Literal(1, 0, <<0, 2>>)>>

\* C21: generate_range with a min,max,step triple (step > 0, min <= max)
\* returns the arithmetic sequence min, min + step, ... of the terms that are
\* at most max (a term within 1e-4 above max is still included; max itself
\* is the last value when it is a term), each rounded to 6 decimals, in
\* ascending order; "0.04,0.14,0.02" yields exactly the 6 points 0.04, 0.06,
\* 0.08, 0.10, 0.12, 0.14.
C21_ArithmeticSequence ==
    (RangeReturned /\ AscendingTriple(sargs.custom_range)) =>
        LET lo == NumberOf(sargs.custom_range[1])
            hi == NumberOf(sargs.custom_range[2])
            step == NumberOf(sargs.custom_range[3])
            n == TermCount(lo, hi, step)
        IN  /\ Len(values) = n
            /\ \A i \in 1..n : values[i] = RoundedTerm(lo, step, i)
            /\ \A i \in 1..(n - 1) : RLeq(values[i], values[i + 1])
            /\ RDiv(RSub(hi, lo), step).d = 1 => values[n] = Rat(RRound(hi, 6), 1000000)
            /\ sargs.custom_range = SixPointTriple =>
                 values = <<Rat(4, 100), Rat(6, 100), Rat(8, 100), Rat(10, 100),
                            Rat(12, 100), Rat(14, 100)>>

\* "0.04,0.14,0.02" has been expanded to its six points
C21_Witness ==
    /\ RangeReturned
    /\ sargs.custom_range = SixPointTriple
    /\ Len(values) = 6
    /\ values[1] = Rat(4, 100)
    /\ values[6] = Rat(14, 100)

\* "1,2,1.00005": the second value, 2.00005, lies above max and is included
C21_ToleranceReached ==
    /\ RangeReturned
    /\ AscendingTriple(sargs.custom_range)
    /\ values = <<RInt(1), Rat(200005, 100000)>>
    /\ RLess(NumberOf(sargs.custom_range[2]), values[2])

\* the parameters whose default range is of the multiplier kind
MultiplierParameters ==
    {"capex_usd", "annual_opex_usd", "annual_fuel_cost_usd",
     "annual_generation_mwh"}

\* run_sensitivity has returned for a multiplier-kind parameter swept over
\* its default range
MultiplierSweepReturned ==
    /\ spc = "returned"
    /\ sargs.param_name \in MultiplierParameters
    /\ sargs.custom_range = <<>>

\* the base value of the swept parameter, from the validated base mapping
SweptBase ==
    Rat(sargs.base_inputs[sargs.param_name], 1000)

\* C22: for a multiplier-kind parameter with no custom range, generate_range
\* returns exactly seven values, base*min, base*(min+step), base*(min+2*step),
\* base, base*(max-2*step), base*(max-step), base*max; for every valid base
\* value the fourth value is the exact base value, so run_sensitivity flags
\* at least one retained point as is_base.
C22_SevenPointsWithExactBase ==
    MultiplierSweepReturned =>
        LET c == DEFAULT_RANGES[sargs.param_name]
            two == RMul(RInt(2), c.step)
        IN  /\ values = <<RMul(SweptBase, c.min),
                          RMul(SweptBase, RAdd(c.min, c.step)),
                          RMul(SweptBase, RAdd(c.min, two)),
                          SweptBase,
                          RMul(SweptBase, RSub(c.max, two)),
                          RMul(SweptBase, RSub(c.max, c.step)),
                          RMul(SweptBase, c.max)>>
            /\ \E i \in 1..Len(sensitivity.results) : sensitivity.results[i].is_base

\* with a base of 100.125 MWh the fourth value is 100.12 and all seven points
\* are retained, none of them flagged is_base
C22_NoBasePointReached ==
    /\ MultiplierSweepReturned
    /\ SweptBase = Rat(100125, 1000)
    /\ values[4] = Rat(10012, 100)
    /\ sensitivity.values_tested = 7
    /\ \A i \in 1..7 : ~sensitivity.results[i].is_base

\* with a base that has at most two decimals the fourth value is the base
C22_ExactBaseReached ==
    /\ MultiplierSweepReturned
    /\ SweptBase = RInt(1000)
    /\ values[4] = SweptBase
    /\ sensitivity.results[4].is_base

\* run_sensitivity has returned
SweepReturned == spc = "returned"

\* the retained points that count for the elasticity
Contributing ==
    {i \in 1..Len(sensitivity.results) :
        /\ ~sensitivity.results[i].is_base
        /\ sensitivity.results[i].value_pct_change # 0}

\* the sum of lcoe_pct_change / value_pct_change over the points of S
RECURSIVE RatioSum(_)
RatioSum(S) ==
    IF S = {} THEN RInt(0)
    ELSE LET i == CHOOSE j \in S : TRUE
             r == sensitivity.results[i]
         IN  RAdd(Rat(r.lcoe_pct_change, r.value_pct_change), RatioSum(S \ {i}))

\* the percentage (in hundredths) by which x differs from base, 0 for a base
\* that is not positive
GuardedPct(x, base) ==
    IF base.n > 0
    THEN RRound(RMul(RDiv(RSub(x, base), base), RInt(100)), 2)
    ELSE 0

\* C23: run_sensitivity reports as elasticity (rounded to 3 decimals) the
\* arithmetic mean of lcoe_pct_change / value_pct_change over exactly the
\* retained points that are not flagged is_base and whose value_pct_change is
\* nonzero, and 0 when there is no such point; a point flagged is_base never
\* contributes, and nothing is divided by a zero value_pct_change, a zero base
\* value or a zero base LCOE: the percentages of a point are 0 when the base
\* value or the base LCOE is 0.
C23_Elasticity ==
    SweepReturned =>
        /\ sensitivity.elasticity =
             IF Contributing = {} THEN 0
             ELSE RRound(RDiv(RatioSum(Contributing),
                              RInt(Cardinality(Contributing))), 3)
        /\ \A i \in 1..Len(sensitivity.results) :
             LET r == sensitivity.results[i]
             IN  /\ r.value_pct_change = GuardedPct(r.value, sensitivity.base_value)
                 /\ r.lcoe_pct_change =
                      GuardedPct(Rat(r.lcoe_usd_per_mwh, 100),
                                 Rat(sensitivity.base_lcoe_usd_per_mwh, 100))
                 /\ r.is_base <=>
                      RLess(RAbs(RSub(r.value, sensitivity.base_value)), Rat(1, 10000))

\* a capex sweep: the base point is flagged and left out, six points count
C23_Witness ==
    /\ SweepReturned
    /\ sargs.param_name = "capex_usd"
    /\ sensitivity.values_tested = 7
    /\ sensitivity.results[4].is_base
    /\ Cardinality(Contributing) = 6
    /\ sensitivity.elasticity # 0

\* a base value of 0: every value_pct_change is 0 and the elasticity is 0
C23_ZeroBaseValueReached ==
    /\ SweepReturned
    /\ RIsZero(sensitivity.base_value)
    /\ sensitivity.values_tested > 1
    /\ Contributing = {}
    /\ sensitivity.elasticity = 0

\* a base LCOE of 0.00: every lcoe_pct_change is 0
C23_ZeroBaseLcoeReached ==
    /\ SweepReturned
    /\ sensitivity.base_lcoe_usd_per_mwh = 0
    /\ Contributing # {}
    /\ \A i \in 1..Len(sensitivity.results) : sensitivity.results[i].lcoe_pct_change = 0

\* a point that is not the base point but whose value_pct_change rounds to 0
C23_ZeroChangeReached ==
    /\ SweepReturned
    /\ \E i \in 1..Len(sensitivity.results) :
         /\ ~sensitivity.results[i].is_base
         /\ sensitivity.results[i].value_pct_change = 0
         /\ ~RIsZero(sensitivity.base_value)

\* the candidate value is one the validator accepts for the parameter
CandidateValid(param_name, value) ==
    LET whole == IF value.n >= 0 THEN RFloor(value) ELSE -RFloor(RNeg(value))
    IN  CASE param_name \in {"capex_usd", "annual_generation_mwh"} -> value.n > 0
          [] param_name \in {"annual_opex_usd", "annual_fuel_cost_usd"} -> value.n >= 0
          [] param_name = "project_lifetime_years" -> whole >= 1 /\ whole <= 50
          [] param_name = "discount_rate" ->
                value.n >= 0 /\ RLeq(value, Rat(30, 100))
          [] param_name \in {"opex_escalation_rate", "fuel_escalation_rate"} ->
                value.n >= 0 /\ RLeq(value, Rat(20, 100))
          [] param_name = "degradation_rate" ->
                value.n >= 0 /\ RLeq(value, Rat(10, 100))

\* the candidates that validate, in the order of values
RECURSIVE ValidCandidates(_)
ValidCandidates(n) ==
    IF n = 0 THEN <<>>
    ELSE IF CandidateValid(sargs.param_name, values[n])
    THEN Append(ValidCandidates(n - 1), values[n])
    ELSE ValidCandidates(n - 1)

\* C24: in run_sensitivity a candidate value whose substituted parameter set
\* fails validation is skipped without any error: results holds exactly the
\* candidates that validate, in the order of the input values, values_tested
\* equals their count, and when every candidate is skipped the bundle has
\* zero tested points, elasticity 0, and min_lcoe, max_lcoe and lcoe_range
\* all 0.
C24_InvalidSkipped ==
    SweepReturned =>
        LET kept == ValidCandidates(Len(values))
        IN  /\ [i \in 1..Len(sensitivity.results) |-> sensitivity.results[i].value] = kept
            /\ sensitivity.values_tested = Len(kept)
            /\ kept = <<>> =>
                 /\ sensitivity.results = <<>>
                 /\ sensitivity.values_tested = 0
                 /\ sensitivity.elasticity = 0
                 /\ sensitivity.min_lcoe = 0
                 /\ sensitivity.max_lcoe = 0
                 /\ sensitivity.lcoe_range = 0

\* "0.5,1,2,60" for the lifetime: 0.5 and 60 are skipped, 1 and 2 retained
C24_Witness ==
    /\ SweepReturned
    /\ sargs.param_name = "project_lifetime_years"
    /\ Len(values) = 4
    /\ sensitivity.values_tested = 2
    /\ sensitivity.results[1].value = RInt(1)
    /\ sensitivity.results[2].value = RInt(2)

\* a capex of 0.003 USD: all seven candidates are 0.0 and are skipped
C24_AllSkippedReached ==
    /\ SweepReturned
    /\ sargs.param_name = "capex_usd"
    /\ Len(values) = 7
    /\ \A i \in 1..7 : RIsZero(values[i])
    /\ sensitivity.values_tested = 0
    /\ sensitivity.results = <<>>


\* the full sweep has returned its report
FullReturned == spc = "all_returned"

\* the parameters the report holds a bundle for
AnalyzedParameters ==
    {sensitivity.by_parameter[i].parameter :
        i \in 1..Len(sensitivity.by_parameter)}

\* the parameters a full sweep of the base mapping is to analyze
ExpectedParameters ==
    {"capex_usd", "annual_opex_usd", "annual_generation_mwh",
     "project_lifetime_years", "discount_rate", "degradation_rate"}
    \cup (IF sargs.base_inputs.annual_fuel_cost_usd > 0
          THEN {"annual_fuel_cost_usd", "fuel_escalation_rate"} ELSE {})
    \cup (IF sargs.base_inputs.annual_opex_usd > 0
          THEN {"opex_escalation_rate"} ELSE {})

\* the elasticity the report's bundle of a parameter holds
BundleElasticity(parameter) ==
    LET i == CHOOSE j \in 1..Len(sensitivity.by_parameter) :
                sensitivity.by_parameter[j].parameter = parameter
    IN  sensitivity.by_parameter[i].elasticity

\* C25: a full sweep analyzes exactly the six fixed parameters, the two fuel
\* parameters if and only if the base fuel cost is above 0 and the opex
\* escalation if and only if the base opex is above 0; the ranking lists each
\* analyzed parameter once with the absolute value of its elasticity, in
\* non-increasing order, and the most sensitive parameter is the ranking's
\* first entry
C25_FullSweepRanking ==
    FullReturned =>
        LET summary == sensitivity.summary
            ranking == summary.parameter_ranking
        IN  /\ AnalyzedParameters = ExpectedParameters
            /\ Len(sensitivity.by_parameter) = Cardinality(ExpectedParameters)
            /\ summary.parameters_analyzed = Cardinality(ExpectedParameters)
            /\ Len(ranking) = Cardinality(ExpectedParameters)
            /\ {ranking[i].parameter : i \in 1..Len(ranking)} = ExpectedParameters
            /\ \A i \in 1..Len(ranking) :
                    ranking[i].elasticity = Abs(BundleElasticity(ranking[i].parameter))
            /\ \A i \in 1..(Len(ranking) - 1) :
                    ranking[i].elasticity >= ranking[i + 1].elasticity
            /\ summary.most_sensitive_parameter = <<"text", ranking[1].parameter>>

\* a full sweep of a base mapping with fuel and opex returns nine parameters,
\* the first of them one whose elasticity is negative
C25_Witness ==
    /\ FullReturned
    /\ Cardinality(ExpectedParameters) = 9
    /\ sensitivity.summary.most_sensitive_parameter = <<"text", "annual_generation_mwh">>
    /\ BundleElasticity("annual_generation_mwh") < 0
    /\ sensitivity.summary.parameter_ranking[2].elasticity > 0

\* a full sweep of a base mapping without fuel and without opex returns the
\* six fixed parameters only
C25_SixParametersReached ==
    /\ FullReturned
    /\ ExpectedParameters = AnalyzedParameters
    /\ Cardinality(AnalyzedParameters) = 6


\* the year loop of calculate_lcoe is running or has ended
InLoop == pc \in {"loop", "done"}

\* the running cumulative figures are the NPV accumulators, from capex and 0
\* before the first year onwards
CumulativeIsNpv ==
    /\ InLoop =>
        /\ acc.cumulative_discounted_cost = acc.npv_costs
        /\ acc.cumulative_discounted_gen = acc.npv_generation
    /\ (pc = "loop" /\ year = 0) =>
        /\ acc.npv_costs = Amount(inputs.capex_usd)
        /\ acc.npv_generation = RInt(0)

\* both cumulative columns of the breakdown are non-decreasing over the years
CumulativeColumnsNonDecreasing ==
    \A i \in 1..(Len(annual_breakdown) - 1) :
        /\ annual_breakdown[i].cumulative_discounted_cost_usd
            <= annual_breakdown[i + 1].cumulative_discounted_cost_usd
        /\ annual_breakdown[i].cumulative_discounted_generation_mwh
            <= annual_breakdown[i + 1].cumulative_discounted_generation_mwh

\* the last annual record carries the reported NPV figures
LastRecordIsNpv ==
    Done =>
        LET last == result.annual_breakdown[Len(result.annual_breakdown)]
        IN  /\ last.year = inputs.project_lifetime_years
            /\ last.cumulative_discounted_cost_usd = result.npv_costs_usd
            /\ last.cumulative_discounted_generation_mwh = result.npv_generation_mwh

\* C26 as stated: in the year loop the cumulative discounted cost is the NPV
\* of costs and the cumulative discounted generation is the NPV of
\* generation; both cumulative columns are non-decreasing, the last record
\* carries npv_costs_usd and npv_generation_mwh, and
\* capex <= npv_costs_usd <= total_lifecycle_cost_usd.
C26_CapexBelowReportedNpv ==
    /\ CumulativeIsNpv
    /\ CumulativeColumnsNonDecreasing
    /\ LastRecordIsNpv
    /\ Done =>
        /\ RLeq(Amount(inputs.capex_usd), Hundredths(result.npv_costs_usd))
        /\ result.npv_costs_usd <= result.total_lifecycle_cost_usd

\* C26 amended: as above, with capex rounded to 2 decimals <= npv_costs_usd
\* <= total_lifecycle_cost_usd (the NPV of costs itself is never below capex).
C26_CumulativeIsNpv ==
    /\ CumulativeIsNpv
    /\ CumulativeColumnsNonDecreasing
    /\ LastRecordIsNpv
    /\ InLoop => RLeq(Amount(inputs.capex_usd), acc.npv_costs)
    /\ Done =>
        /\ RRound(Amount(inputs.capex_usd), 2) <= result.npv_costs_usd
        /\ result.npv_costs_usd <= result.total_lifecycle_cost_usd

\* a discounted run of three years with opex and fuel: both columns rise
\* every year and the NPV of costs lies strictly between capex and the
\* lifecycle cost
C26_Witness ==
    /\ Done
    /\ inputs.project_lifetime_years = 3
    /\ inputs.discount_rate > 0
    /\ inputs.annual_opex_usd > 0
    /\ inputs.annual_fuel_cost_usd > 0
    /\ \A i \in 1..2 :
        /\ result.annual_breakdown[i].cumulative_discounted_cost_usd
            < result.annual_breakdown[i + 1].cumulative_discounted_cost_usd
        /\ result.annual_breakdown[i].cumulative_discounted_generation_mwh
            < result.annual_breakdown[i + 1].cumulative_discounted_generation_mwh
    /\ RRound(Amount(inputs.capex_usd), 2) < result.npv_costs_usd
    /\ result.npv_costs_usd < result.total_lifecycle_cost_usd
    /\ result.annual_breakdown[3].cumulative_discounted_cost_usd = result.npv_costs_usd

\* capex 0.125 with no other cost: npv_costs_usd is 0.12, below capex
C26_RoundedBelowCapexReached ==
    /\ Done
    /\ inputs.capex_usd = 125
    /\ result.npv_costs_usd = 12
    /\ result.total_lifecycle_cost_usd = 12

====
